---- MODULE Spec2Model ----
(***************************************************************************)
(* A model of madison's tool-calling agent loop                            *)
(* (OpenRouterClient.call_with_tool_loop), of the provider adapters that   *)
(* format tool results, and of the Tool Executor with the permission       *)
(* checks made by the file operations it delegates to.                     *)
(*                                                                         *)
(* Python strings are sequences of tokens, so that concatenation           *)
(* (f"Error: {e}") is \o and two texts are equal iff the strings are.      *)
(***************************************************************************)
EXTENDS Integers, Sequences, FiniteSets, TLC

(* ----------------------------- bounds ---------------------------------- *)

\* largest max_iterations argument explored
MaxIter == 2
\* largest number of entries in the "tool_calls" array of one response
MaxCalls == 2
\* largest number of ToolExecutor.execute calls explored
MaxExec == 2
\* largest number of permission checks explored, over all the
\* PermissionManager instances of the process
MaxChecks == 2
\* largest max_retries of the client explored
MaxRetries == 2
\* largest number of lines in one streamed response
MaxLines == 3
\* largest number of tokens chat_stream hands to _handle_chat
MaxTokens == 3
\* largest number of entries in Message.tool_calls and in a result list
MaxToolCalls == 2
MaxActions == 2
MaxHistory == 2
MaxAdds == 4
MaxTurns == 3

(* --------------------------- value domains ----------------------------- *)

\* Python None as the value of an Optional field
NoneVal == [kind |-> "none"]

\* the text "hello" as characters, so that len(content) is computed
Hello == <<"h", "e", "l", "l", "o">>

\* model identifiers given to run
Models == {"anthropic/claude-3-opus", "openai/gpt-4", "mistralai/mixtral"}

\* what the caller passes as tool_executor: an ordinary synchronous
\* function, or the bound coroutine function ToolExecutor.execute
ExecutorKinds == {"sync_callable", "ToolExecutor.execute"}

\* entries of the "tool_calls" array of a response, as raw dicts
\* E1: the usual wire form, arguments as a JSON string
RawWrite ==
  [id |-> "call_1",
   function |-> [name |-> "write_file",
                 arguments |-> [encoding |-> "json_str",
                                value |-> [file_path |-> "notes.txt", content |-> Hello]]]]
\* E2: a tool name the Tool Executor does not know, arguments as a dict
RawUnknown ==
  [id |-> "call_2",
   function |-> [name |-> "delete_universe",
                 arguments |-> [encoding |-> "dict", value |-> [target |-> "all"]]]]
\* E3: arguments is a string that json.loads rejects
RawBadArgs ==
  [id |-> "call_3",
   function |-> [name |-> "read_file",
                 arguments |-> [encoding |-> "bad_str", value |-> [raw |-> "{oops"]]]]
\* E4: an entry without "id": ToolCall(**call_data) fails validation
RawNoId ==
  [function |-> [name |-> "read_file",
                 arguments |-> [encoding |-> "dict", value |-> [file_path |-> "notes.txt"]]]]

\* RawUnknown is executed by the Tool Executor alone (ExecCalls below); the
\* loop treats every name alike
RawCalls == {RawWrite, RawBadArgs, RawNoId}

\* sequences over S of length at most n
SeqUpTo(S, n) == UNION {[1..k -> S] : k \in 0..n}

\* the outcomes of one POST to /chat/completions
\*   neterr    : the request raised (network failure, undecodable body)
\*   http      : a status other than 200
\*   nochoices : 200, body without "choices"
\*   ok        : 200, one choice; tool_calls is NoneVal when the message has
\*               no "tool_calls" key
FailedResponses ==
  {[kind |-> "neterr"], [kind |-> "http", status |-> 429], [kind |-> "nochoices"]}

OkResponses ==
  {[kind |-> "ok", finish_reason |-> fr, content |-> txt, tool_calls |-> tcs] :
     fr \in {"tool_calls", "stop"},
     txt \in {<<>>, <<"answer">>},
     tcs \in {NoneVal} \cup {[kind |-> "list", items |-> s] : s \in SeqUpTo(RawCalls, MaxCalls)}}

Responses == FailedResponses \cup OkResponses

\* what a synchronous tool_executor can do with one call: return a value,
\* or raise
SyncOutcomes ==
  {[raised |-> FALSE, text |-> <<"out">>], [raised |-> TRUE, text |-> <<"boom">>]}

(* ------------------------------ state ---------------------------------- *)

VARIABLES
  pc,              \* position in call_with_tool_loop
  model,           \* argument model
  tool_executor,   \* argument tool_executor (its kind)
  max_iterations,  \* argument max_iterations
  messages,        \* local messages: the conversation history
  iteration,       \* number of completed passes of the for loop
  tool_calls,      \* local tool_calls of the current pass
  tool_results,    \* local tool_results of the current pass
  next_call,       \* index in tool_calls of the next call to execute
  retval,          \* the value returned, or the error raised
  modelCalls,      \* history: number of call_with_tools invocations
  sent,            \* history: the messages argument of the last model call
  received,        \* history: the raw response of every model call
  callLog,         \* history: every tool call handled by the inner for loop
  files,           \* the file system: path -> [kind, data]
  permission_cache,\* FileOperations.permission_manager.permission_cache
  project_config,  \* its project_config.permissions, in memory
  disk_config,     \* .madison/config.yaml
  trace,           \* history: checks and effects of the last execute call
  exec_result,     \* the outcome of the last execute call
  exec_call,       \* the (tool_name, arguments) of the last execute call
  exec_count,      \* number of execute calls made
  managers,        \* instance -> [cache, config] of a PermissionManager
  decisions,       \* history: how every earlier check of a key ended
  last_check,      \* history: the last permission check, with what held before
  edited,          \* history: config.yaml was edited by hand
  perm_count,      \* number of permission checks made
  cs_pc,           \* position in chat_stream
  retry_config,    \* max_retries, retry_initial_delay, retry_backoff_factor
  attempt,         \* chat_stream's loop variable attempt
  delay,           \* chat_stream's local delay
  last_error,      \* chat_stream's local last_error: the APIError's text
  response,        \* the transport's response to the current attempt
  lines,           \* the lines response.aiter_lines() has yet to deliver
  yielded,         \* history: the tokens chat_stream has yielded
  outcomes,        \* history: how every attempt so far ended
  waits,           \* history: every asyncio.sleep of chat_stream
  chat_pc,         \* position in _handle_chat
  cancelled,       \* cancel_token._cancelled
  incoming,        \* what client.chat_stream has yet to deliver
  response_text,   \* _handle_chat's local response_text
  session,         \* session.messages
  chat_log,        \* history: the cancellation and the consumer's steps
  adapter_in,      \* the argument of an adapter call
  adapter_out,     \* what the adapter call returned
  plan,            \* plan.actions of the plan given to execute_plan
  plan_pc,         \* position in execute_plan
  plan_i,          \* execute_plan's loop variable i
  persona,         \* the AgentDefinition that was saved
  persona_file,    \* the text of its file
  persona_loaded,  \* the AgentDefinition that from_file returned
  proc_pc,         \* position in CommandExecutor.execute
  children,        \* history: every subprocess started, with its state
  proc_ret,        \* what the last execute call returned or raised
  proc_calls,      \* number of execute calls begun
  sess_messages,   \* Session.messages
  history_size,    \* Session.history_size
  sess_added,      \* history: the messages added since the last clear
  sess_calls,      \* number of calls made on the session
  last_user_prompt,\* session.last_user_prompt
  turn_base,       \* history: len(session.messages) when the prompt was typed
  turn_log         \* history: how the prompt's turn and its retries ended

loopVars == <<pc, model, tool_executor, max_iterations, messages, iteration,
              tool_calls, tool_results, next_call, retval, modelCalls, sent,
              received, callLog>>

execVars == <<files, permission_cache, project_config, disk_config, trace,
              exec_result, exec_call, exec_count>>

permVars == <<managers, decisions, last_check, edited, perm_count>>

streamVars == <<cs_pc, retry_config, attempt, delay, last_error, response,
                lines, yielded, outcomes, waits>>

chatVars == <<chat_pc, cancelled, incoming, response_text, session, chat_log>>

adapterVars == <<adapter_in, adapter_out>>

planVars == <<plan, plan_pc, plan_i>>

\* the variables of the agent's plans, persona files, subprocesses and
\* sessions
personaVars == <<persona, persona_file, persona_loaded>>

procVars == <<proc_pc, children, proc_ret, proc_calls>>

sessionVars == <<sess_messages, history_size, sess_added, sess_calls,
                 last_user_prompt, turn_base, turn_log>>

coreVars == <<planVars, personaVars, procVars, sessionVars>>

\* the variables of the streaming client, of the chat handler, of the
\* provider adapters and of the core objects
sideVars == <<streamVars, chatVars, adapterVars, coreVars>>

vars == <<pc, model, tool_executor, max_iterations, messages, iteration,
          tool_calls, tool_results, next_call, retval, modelCalls, sent,
          received, callLog, files, permission_cache, project_config,
          disk_config, trace, exec_result, exec_call, exec_count,
          managers, decisions, last_check, edited, perm_count,
          cs_pc, retry_config, attempt, delay, last_error, response, lines,
          yielded, outcomes, waits, chat_pc, cancelled, incoming,
          response_text, session, chat_log, adapter_in, adapter_out,
          plan, plan_pc, plan_i, persona, persona_file, persona_loaded,
          proc_pc, children, proc_ret, proc_calls,
          sess_messages, history_size, sess_added, sess_calls,
          last_user_prompt, turn_base, turn_log>>

(* --------------------------- api/models.py ----------------------------- *)

\* Message(role=..., content=..., tool_calls=...)
Message(role, content, tcs) ==
  [role |-> role, content |-> content, tool_calls |-> tcs]

\* ToolCall(**call_data) succeeds iff the required fields id and function
\* are present
ToolCallValid(call_data) ==
  "id" \in DOMAIN call_data /\ "function" \in DOMAIN call_data

\* ToolCall.arguments: json.loads of a string, the dict itself otherwise
ToolCallArguments(tc) ==
  LET a == tc.function.arguments IN
  CASE a.encoding = "dict"     -> [raised |-> FALSE, value |-> a.value]
    [] a.encoding = "json_str" -> [raised |-> FALSE, value |-> a.value]
    [] OTHER                   -> [raised |-> TRUE, value |-> a.value]

(* ------------------------ core/permissions.py -------------------------- *)

\* the path strings that occur as arguments and allow-list entries, parsed
\* by Path(): absolute or relative, and the components
PathStrings == {".", "notes.txt", "docs", "/etc/hosts", "ls"}

PathOf(s) ==
  CASE s = "."          -> [absolute |-> FALSE, parts |-> <<>>]
    [] s = "notes.txt"  -> [absolute |-> FALSE, parts |-> <<"notes.txt">>]
    [] s = "docs"       -> [absolute |-> FALSE, parts |-> <<"docs">>]
    [] s = "/etc/hosts" -> [absolute |-> TRUE, parts |-> <<"etc", "hosts">>]
    [] s = "ls"         -> [absolute |-> FALSE, parts |-> <<"ls">>]

\* Path.cwd(), as the components of an absolute path
Cwd == <<"proj">>

\* str() of a relative path
StrRel(parts) ==
  CHOOSE s \in PathStrings : ~PathOf(s).absolute /\ PathOf(s).parts = parts

\* str() of an absolute path outside the project
StrAbs(parts) ==
  CHOOSE s \in PathStrings : PathOf(s).absolute /\ PathOf(s).parts = parts

\* Path.relative_to succeeds iff base is a prefix of path
relative_to(path, base) ==
  /\ Len(base) <= Len(path)
  /\ SubSeq(path, 1, Len(base)) = base

_normalize_path(p) ==
  IF PathOf(p).absolute THEN PathOf(p).parts ELSE Cwd \o PathOf(p).parts

_is_within_project(path) == relative_to(path, Cwd)

_is_path_allowed(path, allowed_paths) ==
  \E allowed \in allowed_paths : relative_to(path, _normalize_path(allowed))

\* permission_cache is a dict: a set of (key, value) entries, one per key
CacheHas(cache, key) == \E e \in cache : e.key = key
CacheGet(cache, key) == (CHOOSE e \in cache : e.key = key).value

\* the decision is returned but not stored
CachePutNothing(cache, key, value) == cache

CachePut(cache, key, value) ==
  {e \in cache : e.key # key} \cup {[key |-> key, value |-> value]}

\* the state the Tool Executor works on
\*   files  : the file system
\*   cache  : permission_cache
\*   config : project_config.permissions (lists as sets: entries are added
\*            only when absent, and only membership is read)
\*   disk   : the saved config.yaml
ExecState(f, c, p, d) == [files |-> f, cache |-> c, config |-> p, disk |-> d]

\* _add_path_to_whitelist: the in-memory list grows even if save() fails
_add_path_to_whitelist(path, operation, st, env) ==
  LET rel_path == IF relative_to(path, Cwd)
                  THEN StrRel(SubSeq(path, Len(Cwd) + 1, Len(path)))
                  ELSE StrAbs(path)
      config == IF operation \in {"file_read", "file_write"}
                THEN [st.config EXCEPT !.always_allow = @ \cup {rel_path}]
                ELSE IF operation = "command_exec"
                THEN [st.config EXCEPT !.allowed_paths = @ \cup {rel_path}]
                ELSE st.config
  IN [ok |-> env.save_ok,
      st |-> [st EXCEPT !.config = config,
                        !.disk = IF env.save_ok THEN config ELSE @]]

\* prompt_for_permission: "1" once, "2" always, anything else deny
prompt_for_permission(path, operation, st, env) ==
  CASE env.choice = "1" -> [allowed |-> TRUE, st |-> st]
    [] env.choice = "2" ->
         [allowed |-> TRUE,
          st |-> _add_path_to_whitelist(_normalize_path(path), operation, st, env).st]
    [] OTHER -> [allowed |-> FALSE, st |-> st]

\* the common body of can_read_file and can_write_file
CanFile(tag, operation, file_path, prompt_user, st, env) ==
  LET path == _normalize_path(file_path)
      cache_key == <<tag, path>>
      asked == prompt_for_permission(file_path, operation, st, env)
  IN
  IF CacheHas(st.cache, cache_key)
  THEN [allowed |-> CacheGet(st.cache, cache_key), prompted |-> FALSE, st |-> st]
  ELSE IF ~_is_within_project(path)
  THEN IF prompt_user
       THEN [allowed |-> asked.allowed, prompted |-> TRUE, st |-> asked.st]
       ELSE [allowed |-> FALSE, prompted |-> FALSE, st |-> st]
  ELSE IF _is_path_allowed(path, st.config.always_allow)
  THEN [allowed |-> TRUE, prompted |-> FALSE,
        st |-> [st EXCEPT !.cache = CachePut(@, cache_key, TRUE)]]
  ELSE IF prompt_user
  THEN [allowed |-> asked.allowed, prompted |-> TRUE, st |-> asked.st]
  ELSE [allowed |-> FALSE, prompted |-> FALSE, st |-> st]

can_read_file(file_path, prompt_user, st, env) ==
  CanFile("read", "file_read", file_path, prompt_user, st, env)

can_write_file(file_path, prompt_user, st, env) ==
  CanFile("write", "file_write", file_path, prompt_user, st, env)

\* events recorded in trace
CheckEvent(operation, target, r) ==
  [ev |-> "check", op |-> operation, target |-> target,
   allowed |-> r.allowed, prompted |-> r.prompted]

EffectEvent(operation, target) ==
  [ev |-> "effect", op |-> operation, target |-> target]

(* --------------------------- tools/file_ops.py ------------------------- *)

\* _resolve_path: the target, or "Access denied" outside base_dir (= cwd)
_resolve_path(file_path) ==
  LET target == IF PathOf(file_path).absolute
                THEN PathOf(file_path).parts
                ELSE Cwd \o PathOf(file_path).parts
  IN IF relative_to(target, Cwd)
     THEN [raised |-> FALSE, target |-> target]
     ELSE [raised |-> TRUE, target |-> target]

FileOperationError(msg, st, tr) ==
  [raised |-> TRUE, value |-> msg, st |-> st, trace |-> tr]

\* FileOperations.read after the permission check has answered perm
FileReadChecked(file_path, perm) ==
  LET tr == <<CheckEvent("file_read", _normalize_path(file_path), perm)>>
      res == _resolve_path(file_path)
      node == perm.st.files[res.target]
  IN
  IF ~perm.allowed
  THEN FileOperationError(<<"Permission denied: ", file_path>>, perm.st, tr)
  ELSE IF res.raised
  THEN FileOperationError(<<"Access denied: ", file_path, " is outside allowed directory">>,
                          perm.st, tr)
  ELSE IF node.kind = "absent"
  THEN FileOperationError(<<"File not found: ", file_path>>, perm.st, tr)
  ELSE IF node.kind # "file"
  THEN FileOperationError(<<"Not a file: ", file_path>>, perm.st, tr)
  ELSE [raised |-> FALSE, value |-> node.data, st |-> perm.st,
        trace |-> Append(tr, EffectEvent("file_read", res.target))]

\* FileOperations.read
FileRead(file_path, st, env) ==
  FileReadChecked(file_path, can_read_file(file_path, TRUE, st, env))

\* FileOperations.write after the permission check has answered perm
FileWriteChecked(file_path, content, perm) ==
  LET tr == <<CheckEvent("file_write", _normalize_path(file_path), perm)>>
      res == _resolve_path(file_path)
      node == perm.st.files[res.target]
  IN
  IF ~perm.allowed
  THEN FileOperationError(<<"Permission denied: ", file_path>>, perm.st, tr)
  ELSE IF res.raised
  THEN FileOperationError(<<"Access denied: ", file_path, " is outside allowed directory">>,
                          perm.st, tr)
  ELSE IF node.kind = "dir"
  THEN \* open(target, "w") raises IsADirectoryError
       FileOperationError(<<"Failed to write file ", file_path, ": ", "IsADirectoryError">>,
                          perm.st, tr)
  ELSE [raised |-> FALSE, value |-> <<>>,
        st |-> [perm.st EXCEPT !.files[res.target] = [kind |-> "file", data |-> content]],
        trace |-> Append(tr, EffectEvent("file_write", res.target))]

\* FileOperations.write
FileWrite(file_path, content, st, env) ==
  FileWriteChecked(file_path, content, can_write_file(file_path, TRUE, st, env))

(* ------------------------- tools/command_exec.py ----------------------- *)

\* what the subprocess does
ProcOutcomes ==
  {[kind |-> "exit", returncode |-> 0, stdout |-> <<"out">>, stderr |-> <<>>],
   [kind |-> "exit", returncode |-> 0, stdout |-> <<>>, stderr |-> <<>>],
   [kind |-> "exit", returncode |-> 1, stdout |-> <<>>, stderr |-> <<"err">>],
   [kind |-> "exit", returncode |-> 1, stdout |-> <<>>, stderr |-> <<>>],
   [kind |-> "timeout"],
   [kind |-> "spawn_fail"]}

\* CommandExecutor.execute: (stdout, stderr, returncode) or
\* CommandExecutionError
CommandExecute(command, env) ==
  CASE env.proc.kind = "spawn_fail" ->
         [raised |-> TRUE, value |-> <<"Command execution failed: ", "OSError">>,
          trace |-> <<>>]
    [] env.proc.kind = "timeout" ->
         [raised |-> TRUE, value |-> <<"Command timed out after ", "30", " seconds">>,
          trace |-> <<EffectEvent("command_exec", <<command>>)>>]
    [] OTHER ->
         [raised |-> FALSE, value |-> <<>>,
          stdout |-> env.proc.stdout, stderr |-> env.proc.stderr,
          returncode |-> env.proc.returncode,
          trace |-> <<EffectEvent("command_exec", <<command>>)>>]

(* -------------------------- tools/web_search.py ------------------------ *)

SearchOutcomes == {"results", "no_results", "fail"}

\* WebSearcher.search
WebSearch(query, env) ==
  CASE env.search = "fail" ->
         [raised |-> TRUE, value |-> <<"Search failed: ", "DDGSException">>,
          trace |-> <<EffectEvent("search", <<query>>)>>]
    [] env.search = "no_results" ->
         [raised |-> FALSE, value |-> <<"[yellow]No results found for your search.[/yellow]">>,
          trace |-> <<EffectEvent("search", <<query>>)>>]
    [] OTHER ->
         [raised |-> FALSE, value |-> <<"[bold]Search Results:[/bold]", "1. title">>,
          trace |-> <<EffectEvent("search", <<query>>)>>]

(* ------------------------- core/tool_executor.py ----------------------- *)

\* str(n) for the small numbers that occur
NumStr(n) ==
  CASE n = 0 -> "0" [] n = 1 -> "1" [] n = 2 -> "2" [] n = 3 -> "3"
    [] n = 4 -> "4" [] n = 5 -> "5" [] OTHER -> "many"

\* arguments.get(key) is falsy: the key is absent or holds ""
Falsy(arguments, key) ==
  key \notin DOMAIN arguments \/ arguments[key] = ""

ExecReturn(text, st, tr) == [raised |-> FALSE, text |-> text, st |-> st, trace |-> tr]

_execute_command(arguments, st, env) ==
  IF Falsy(arguments, "command")
  THEN ExecReturn(<<"Error: ", "command", " parameter is required">>, st, <<>>)
  ELSE LET r == CommandExecute(arguments.command, env) IN
       IF r.raised
       THEN ExecReturn(<<"Error: ", "Failed to execute command: ">> \o r.value, st, r.trace)
       ELSE IF r.returncode = 0
       THEN ExecReturn(IF r.stdout # <<>> THEN r.stdout
                       ELSE <<"(command executed successfully)">>, st, r.trace)
       ELSE ExecReturn(<<"Error: ">> \o
                       (IF r.stderr # <<>> THEN r.stderr
                        ELSE <<"Command failed with exit code ", NumStr(r.returncode)>>),
                       st, r.trace)

\* FileOperations.read raises FileOperationError, never FileNotFoundError,
\* so every failure r takes the generic except branch
ReadFileReturn(r) ==
  IF r.raised
  THEN ExecReturn(<<"Error: ", "Failed to read file: ">> \o r.value, r.st, r.trace)
  ELSE ExecReturn(r.value, r.st, r.trace)

_read_file(arguments, st, env) ==
  IF Falsy(arguments, "file_path")
  THEN ExecReturn(<<"Error: ", "file_path", " parameter is required">>, st, <<>>)
  ELSE ReadFileReturn(FileRead(arguments.file_path, st, env))

\* what _write_file returns once FileOperations.write has ended as r
WriteFileReturn(file_path, content, r) ==
  IF r.raised
  THEN ExecReturn(<<"Error: ", "Failed to write file: ">> \o r.value, r.st, r.trace)
  ELSE ExecReturn(<<"Successfully wrote ", NumStr(Len(content)), " bytes to ",
                    file_path>>, r.st, r.trace)

_write_file(arguments, st, env) ==
  LET content == IF "content" \in DOMAIN arguments THEN arguments.content ELSE <<>> IN
  IF Falsy(arguments, "file_path")
  THEN ExecReturn(<<"Error: ", "file_path", " parameter is required">>, st, <<>>)
  ELSE WriteFileReturn(arguments.file_path, content,
                       FileWrite(arguments.file_path, content, st, env))

_search_web(arguments, st, env) ==
  IF Falsy(arguments, "query")
  THEN ExecReturn(<<"Error: ", "query", " parameter is required">>, st, <<>>)
  ELSE LET r == WebSearch(arguments.query, env) IN
       IF r.raised
       THEN ExecReturn(<<"Error: ", "Failed to search web: ">> \o r.value, st, r.trace)
       ELSE ExecReturn(r.value, st, r.trace)

\* ToolExecutor.execute, run to completion (awaited)
execute(tool_name, arguments, st, env) ==
  CASE tool_name = "execute_command" -> _execute_command(arguments, st, env)
    [] tool_name = "read_file"       -> _read_file(arguments, st, env)
    [] tool_name = "write_file"      -> _write_file(arguments, st, env)
    [] tool_name = "search_web"      -> _search_web(arguments, st, env)
    [] OTHER -> [raised |-> TRUE, text |-> <<"Unknown tool: ", tool_name>>,
                 st |-> st, trace |-> <<>>]

\* the tools of ALL_TOOLS
RecognizedTools == {"execute_command", "read_file", "write_file", "search_web"}

\* parameters.required of each tool definition
RequiredArgs(tool_name) ==
  CASE tool_name = "execute_command" -> {"command"}
    [] tool_name = "read_file"       -> {"file_path"}
    [] tool_name = "write_file"      -> {"file_path", "content"}
    [] tool_name = "search_web"      -> {"query"}
    [] OTHER                         -> {}

\* the calls made of execute
ExecCalls ==
  {[name |-> "write_file", arguments |-> [file_path |-> "notes.txt", content |-> Hello]],
   [name |-> "write_file", arguments |-> [file_path |-> "docs", content |-> Hello]],
   [name |-> "write_file", arguments |-> [content |-> Hello]],
   [name |-> "write_file", arguments |-> [file_path |-> "notes.txt"]],
   [name |-> "read_file", arguments |-> [file_path |-> "notes.txt"]],
   [name |-> "read_file", arguments |-> [file_path |-> "/etc/hosts"]],
   [name |-> "read_file", arguments |-> [file_path |-> ""]],
   [name |-> "execute_command", arguments |-> [command |-> "ls"]],
   [name |-> "execute_command", arguments |-> [cwd |-> "."]],
   [name |-> "search_web", arguments |-> [query |-> "tla"]],
   [name |-> "search_web", arguments |-> [limit |-> "5"]],
   [name |-> "delete_universe", arguments |-> [target |-> "all"]]}

\* what the environment does during one call: the user's answer to a
\* permission prompt, whether config.yaml can be written, the subprocess,
\* the search engine
Envs ==
  [choice : {"1", "2", "3"}, save_ok : BOOLEAN,
   proc : ProcOutcomes, search : SearchOutcomes]

\* the files of the model's file system, as absolute paths
FileTargets == {<<"proj", "notes.txt">>, <<"proj", "docs">>, <<"etc", "hosts">>}

AbsentFile == [kind |-> "absent", data |-> <<>>]

InitialFiles ==
  {[t \in FileTargets |->
      CASE t = <<"proj", "notes.txt">> -> n
        [] t = <<"proj", "docs">>      -> [kind |-> "dir", data |-> <<>>]
        [] OTHER                       -> [kind |-> "file", data |-> <<"l", "o">>]] :
   n \in {AbsentFile, [kind |-> "file", data |-> <<>>]}}

\* ProjectPermissions: the defaults, or a saved file that allows docs only
InitialConfigs ==
  {[always_allow |-> {"."}, allowed_paths |-> {"."}],
   [always_allow |-> {"docs"}, allowed_paths |-> {"."}]}

\* chat_stream's variables while no streaming call is made
StreamIdle ==
  /\ cs_pc = "idle"
  /\ retry_config = [max_retries |-> 0, retry_initial_delay |-> 1,
                     retry_backoff_factor |-> 1]
  /\ attempt = 0
  /\ delay = 0
  /\ last_error = <<>>
  /\ response = NoneVal
  /\ lines = <<>>
  /\ yielded = <<>>
  /\ outcomes = <<>>
  /\ waits = <<>>

\* _handle_chat's variables while no chat message is handled
ChatIdle ==
  /\ chat_pc = "idle"
  /\ cancelled = FALSE
  /\ incoming = NoneVal
  /\ response_text = <<>>
  /\ session = <<>>
  /\ chat_log = NoneVal

\* the adapters' variables while no adapter is called
AdapterIdle ==
  /\ adapter_in = NoneVal
  /\ adapter_out = NoneVal

\* execute_plan's variables while no plan is executed
PlanIdle ==
  /\ plan = <<>>
  /\ plan_pc = "idle"
  /\ plan_i = 0

\* the persona file's variables while no AgentDefinition is saved
PersonaIdle ==
  /\ persona = NoneVal
  /\ persona_file = NoneVal
  /\ persona_loaded = NoneVal

\* CommandExecutor.execute's variables while no command is run
ProcIdle ==
  /\ proc_pc = "idle"
  /\ children = <<>>
  /\ proc_ret = NoneVal
  /\ proc_calls = 0

\* the Session's variables while no session is followed
SessionIdle ==
  /\ sess_messages = <<>>
  /\ history_size = 50
  /\ sess_added = <<>>
  /\ sess_calls = 0
  /\ last_user_prompt = NoneVal
  /\ turn_base = 0
  /\ turn_log = <<>>

CoreIdle == PlanIdle /\ PersonaIdle /\ ProcIdle /\ SessionIdle

SideIdle == StreamIdle /\ ChatIdle /\ AdapterIdle /\ CoreIdle

\* the loop's variables while only the Tool Executor is exercised
LoopIdle ==
  /\ pc = "idle"
  /\ model = "anthropic/claude-3-opus"
  /\ tool_executor = "ToolExecutor.execute"
  /\ max_iterations = 0
  /\ messages = <<>>
  /\ iteration = 0
  /\ tool_calls = NoneVal
  /\ tool_results = <<>>
  /\ next_call = 1
  /\ retval = NoneVal
  /\ modelCalls = 0
  /\ sent = <<>>
  /\ received = <<>>
  /\ callLog = <<>>

\* the PermissionManager instances the process holds: each FileOperations
\* constructs its own (cli.py:81, tool_executor.py:20)
Instances == {"cli.file_ops", "tool_executor.file_ops"}

\* PermissionManager.__init__ of every instance, given ProjectConfig.load()
Constructed(config) ==
  [i \in Instances |-> [cache |-> {}, config |-> config]]

\* the instances while only one FileOperations is exercised
PermIdle ==
  /\ managers = Constructed([always_allow |-> {"."}, allowed_paths |-> {"."}])
  /\ decisions = {}
  /\ last_check = NoneVal
  /\ edited = FALSE
  /\ perm_count = 0

\* the executor's variables while no execute call has been made
ExecIdle ==
  /\ permission_cache = {}
  /\ trace = <<>>
  /\ exec_result = NoneVal
  /\ exec_call = NoneVal
  /\ exec_count = 0

InitExec ==
  /\ files \in InitialFiles
  /\ disk_config \in InitialConfigs
  /\ project_config = disk_config
  /\ ExecIdle
  /\ LoopIdle
  /\ PermIdle
  /\ SideIdle

\* one call of ToolExecutor.execute with tool_name = name
Execute(name) ==
  /\ exec_count < MaxExec
  /\ \E call \in ExecCalls, env \in Envs :
       /\ call.name = name
       /\ \E r \in {execute(call.name, call.arguments,
                           ExecState(files, permission_cache, project_config, disk_config),
                           env)} :
             /\ files' = r.st.files
             /\ permission_cache' = r.st.cache
             /\ project_config' = r.st.config
             /\ disk_config' = r.st.disk
             /\ trace' = r.trace
             /\ exec_result' = [raised |-> r.raised, text |-> r.text]
             /\ exec_call' = call
  /\ exec_count' = exec_count + 1

ExecuteCommand == Execute("execute_command")
ReadFile == Execute("read_file")
WriteFile == Execute("write_file")
SearchWeb == Execute("search_web")
UnknownTool == Execute("delete_universe")

(* --------------------------- api/client.py ----------------------------- *)

\* _parse_tool_calls: the entries that validate, in order
_parse_tool_calls(tool_calls_data) ==
  SelectSeq(tool_calls_data, ToolCallValid)

\* every failure turned into an empty answer in place of APIError
call_with_toolsSwallows(resp) ==
  IF resp.kind = "ok"
  THEN [raised |-> FALSE,
        response_text |-> resp.content,
        tool_calls |->
          IF resp.finish_reason = "tool_calls" /\ resp.tool_calls # NoneVal
          THEN [kind |-> "list", items |-> _parse_tool_calls(resp.tool_calls.items)]
          ELSE NoneVal]
  ELSE [raised |-> FALSE, response_text |-> <<>>, tool_calls |-> NoneVal]

\* call_with_tools: APIError, or (response_text, tool_calls)
call_with_tools(resp) ==
  CASE resp.kind = "neterr" ->
         [raised |-> TRUE, error |-> <<"APIError: ", "Tool calling request failed">>]
    [] resp.kind = "http" ->
         [raised |-> TRUE, error |-> <<"APIError: ", "HTTP error">>]
    [] resp.kind = "nochoices" ->
         [raised |-> TRUE, error |-> <<"APIError: ", "No choices in response">>]
    [] OTHER ->
         [raised |-> FALSE,
          response_text |-> resp.content,
          tool_calls |->
            IF resp.finish_reason = "tool_calls" /\ resp.tool_calls # NoneVal
            THEN [kind |-> "list", items |-> _parse_tool_calls(resp.tool_calls.items)]
            ELSE NoneVal]

\* the test "tool_calls is not None" in place of truthiness
TruthyNotNone(l) == l # NoneVal

\* Python truthiness of an Optional[List]
Truthy(l) == l # NoneVal /\ l.items # <<>>

\* str(result) of the coroutine object that calling an async def returns
CoroutineRepr == <<"<coroutine object ToolExecutor.execute>">>

\* json.dumps(tool_results): a string, not a list of blocks
JsonDumps(results) == [kind |-> "json_text", dumped |-> results]

SentinelText == <<"Max iterations reached">>

\* the message alone, without the "Error: " prefix
ErrorContentNoPrefix(msg) == msg

\* f"Error: {str(e)}"
ErrorContent(msg) == <<"Error: ">> \o msg

\* the loop bound off by one: range(max_iterations + 1)
LoopContinuesInclusive == iteration <= max_iterations

\* for iteration in range(max_iterations): another pass is made
LoopContinues == iteration < max_iterations

InitLoop ==
  /\ pc = "loop_head"
  /\ model \in Models
  /\ tool_executor \in ExecutorKinds
  /\ max_iterations \in 0..MaxIter
  /\ messages = <<Message("user", [kind |-> "text", text |-> <<"prompt">>], NoneVal)>>
  /\ iteration = 0
  /\ tool_calls = NoneVal
  /\ tool_results = <<>>
  /\ next_call = 1
  /\ retval = NoneVal
  /\ modelCalls = 0
  /\ sent = <<>>
  /\ received = <<>>
  /\ callLog = <<>>
  /\ files \in InitialFiles
  /\ files[<<"proj", "notes.txt">>] = AbsentFile
  /\ disk_config = [always_allow |-> {"."}, allowed_paths |-> {"."}]
  /\ project_config = disk_config
  /\ ExecIdle
  /\ PermIdle
  /\ SideIdle

\* the loop on a client that is configured to retry: max_retries is 3 by
\* default and at least 1 here
InitRetrying ==
  /\ pc = "loop_head"
  /\ model \in Models
  /\ tool_executor = "ToolExecutor.execute"
  /\ max_iterations \in 1..MaxIter
  /\ messages = <<Message("user", [kind |-> "text", text |-> <<"prompt">>], NoneVal)>>
  /\ iteration = 0
  /\ tool_calls = NoneVal
  /\ tool_results = <<>>
  /\ next_call = 1
  /\ retval = NoneVal
  /\ modelCalls = 0
  /\ sent = <<>>
  /\ received = <<>>
  /\ callLog = <<>>
  /\ files \in InitialFiles
  /\ files[<<"proj", "notes.txt">>] = AbsentFile
  /\ disk_config = [always_allow |-> {"."}, allowed_paths |-> {"."}]
  /\ project_config = disk_config
  /\ ExecIdle
  /\ PermIdle
  /\ cs_pc = "idle"
  /\ retry_config \in [max_retries : 1..MaxRetries, retry_initial_delay : {1},
                        retry_backoff_factor : {2}]
  /\ attempt = 0
  /\ delay = 0
  /\ last_error = <<>>
  /\ response = NoneVal
  /\ lines = <<>>
  /\ yielded = <<>>
  /\ outcomes = <<>>
  /\ waits = <<>>
  /\ ChatIdle
  /\ AdapterIdle
  /\ CoreIdle

\* lines 443-465, a pass in which call_with_tools raises
ModelCallFails ==
  /\ pc = "loop_head"
  /\ LoopContinues
  /\ \E resp \in Responses :
       LET r == call_with_tools(resp) IN
       /\ r.raised
       /\ pc' = "raised"
       /\ retval' = [kind |-> "error", text |-> r.error]
       /\ received' = Append(received, resp)
  /\ modelCalls' = modelCalls + 1
  /\ sent' = messages
  /\ UNCHANGED <<model, tool_executor, max_iterations, messages, iteration,
                 tool_calls, tool_results, next_call, callLog>>

\* lines 443-468, a pass in which call_with_tools returns
ModelCallReturns ==
  /\ pc = "loop_head"
  /\ LoopContinues
  /\ \E resp \in Responses :
       LET r == call_with_tools(resp)
           assistant_message ==
             Message("assistant",
                     IF r.response_text # <<>>
                     THEN [kind |-> "text", text |-> r.response_text]
                     ELSE NoneVal,
                     IF Truthy(r.tool_calls) THEN r.tool_calls ELSE NoneVal)
       IN
       /\ ~r.raised
       /\ received' = Append(received, resp)
       /\ messages' = Append(messages, assistant_message)
       /\ tool_calls' = r.tool_calls
       /\ IF ~Truthy(r.tool_calls)
          THEN /\ pc' = "done"
               /\ retval' = [kind |-> "text", text |-> r.response_text]
          ELSE /\ pc' = "exec_tools"
               /\ retval' = retval
  /\ modelCalls' = modelCalls + 1
  /\ sent' = messages
  /\ tool_results' = <<>>
  /\ next_call' = 1
  /\ UNCHANGED <<model, tool_executor, max_iterations, iteration, callLog>>

\* the result correlated by the tool's name in place of the call's id
ToolResultDictNameAsId(tool_call, content) ==
  [type |-> "tool_result", tool_use_id |-> tool_call.function.name, content |-> content]

\* the dict appended to tool_results for one call
ToolResultDict(tool_call, content) ==
  [type |-> "tool_result", tool_use_id |-> tool_call.id, content |-> content]

\* the entry of callLog for one tool call: whether tool_executor was
\* invoked, whether the try block raised, and the value or the message
CallRecord(tool_call, invoked, raised, text) ==
  [round |-> iteration + 1, index |-> next_call, id |-> tool_call.id,
   name |-> tool_call.function.name, arguments |-> tool_call.function.arguments,
   invoked |-> invoked, raised |-> raised, text |-> text]

\* lines 469-484, one pass of the inner for loop
ExecuteToolCall ==
  /\ pc = "exec_tools"
  /\ next_call <= Len(tool_calls.items)
  /\ LET tool_call == tool_calls.items[next_call]
         args == ToolCallArguments(tool_call)
     IN
     IF args.raised
     THEN \* tool_call.arguments raises inside the try block
          /\ tool_results' = Append(tool_results,
                ToolResultDict(tool_call, ErrorContent(<<"JSONDecodeError">>)))
          /\ callLog' = Append(callLog,
                CallRecord(tool_call, FALSE, TRUE, <<"JSONDecodeError">>))
     ELSE IF tool_executor = "sync_callable"
     THEN \E out \in SyncOutcomes :
            /\ tool_results' = Append(tool_results,
                  ToolResultDict(tool_call,
                    IF out.raised THEN ErrorContent(out.text) ELSE out.text))
            /\ callLog' = Append(callLog,
                  CallRecord(tool_call, TRUE, out.raised, out.text))
     ELSE \* calling the async def returns a coroutine object, which is
          \* never awaited: str(result) is its repr
          /\ tool_results' = Append(tool_results,
                ToolResultDict(tool_call, CoroutineRepr))
          /\ callLog' = Append(callLog,
                CallRecord(tool_call, TRUE, FALSE, CoroutineRepr))
  /\ next_call' = next_call + 1
  /\ UNCHANGED <<pc, model, tool_executor, max_iterations, messages, iteration,
                 tool_calls, retval, modelCalls, sent, received>>

\* the results message stored over the assistant message instead of
\* appended after it
InjectResultsOverwrites ==
  /\ pc = "exec_tools"
  /\ next_call > Len(tool_calls.items)
  /\ messages' = [messages EXCEPT ![Len(messages)] =
                    Message("user", JsonDumps(tool_results), NoneVal)]
  /\ iteration' = iteration + 1
  /\ pc' = "loop_head"
  /\ UNCHANGED <<model, tool_executor, max_iterations, tool_calls, tool_results,
                 next_call, retval, modelCalls, sent, received, callLog>>

\* lines 486-491, and the end of the pass
InjectResults ==
  /\ pc = "exec_tools"
  /\ next_call > Len(tool_calls.items)
  /\ messages' = Append(messages, Message("user", JsonDumps(tool_results), NoneVal))
  /\ iteration' = iteration + 1
  /\ pc' = "loop_head"
  /\ UNCHANGED <<model, tool_executor, max_iterations, tool_calls, tool_results,
                 next_call, retval, modelCalls, sent, received, callLog>>

\* lines 493-494
MaxIterationsReached ==
  /\ pc = "loop_head"
  /\ ~LoopContinues
  /\ pc' = "done"
  /\ retval' = [kind |-> "text", text |-> SentinelText]
  /\ UNCHANGED <<model, tool_executor, max_iterations, messages, iteration,
                 tool_calls, tool_results, next_call, modelCalls, sent,
                 received, callLog>>

NextLoop ==
  \/ ModelCallFails /\ UNCHANGED <<execVars, permVars, sideVars>>
  \/ ModelCallReturns /\ UNCHANGED <<execVars, permVars, sideVars>>
  \/ ExecuteToolCall /\ UNCHANGED <<execVars, permVars, sideVars>>
  \/ InjectResults /\ UNCHANGED <<execVars, permVars, sideVars>>
  \/ MaxIterationsReached /\ UNCHANGED <<execVars, permVars, sideVars>>

\* a run of call_with_tool_loop
Spec == InitLoop /\ [][NextLoop]_vars

\* the same, with the coroutine scheduled until it returns or raises: every
\* awaited model call completes, with a response or with an error
\* the loop on a client with max_retries >= 1
SpecRetrying == InitRetrying /\ [][NextLoop]_vars

SpecFair == Spec /\ WF_vars(NextLoop)

NextExec ==
  \/ ExecuteCommand /\ UNCHANGED <<loopVars, permVars, sideVars>>
  \/ ReadFile /\ UNCHANGED <<loopVars, permVars, sideVars>>
  \/ WriteFile /\ UNCHANGED <<loopVars, permVars, sideVars>>
  \/ SearchWeb /\ UNCHANGED <<loopVars, permVars, sideVars>>
  \/ UnknownTool /\ UNCHANGED <<loopVars, permVars, sideVars>>

\* a sequence of awaited ToolExecutor.execute calls
SpecExec == InitExec /\ [][NextExec]_vars

(* ------------- core/permissions.py: the checks of a process ------------ *)

\* can_execute_command; cwd "None" stands for None, as in the cache key
\* f"exec:{command}:{cwd}"
can_execute_command(command, cwd, prompt_user, st, env) ==
  LET cache_key == <<"exec", <<command, cwd>>>>
      exec_cwd == IF cwd # "None" THEN _normalize_path(cwd) ELSE Cwd
      asked == prompt_for_permission(command, "command_exec", st, env)
  IN
  IF CacheHas(st.cache, cache_key)
  THEN [allowed |-> CacheGet(st.cache, cache_key), prompted |-> FALSE, st |-> st]
  ELSE IF ~_is_within_project(exec_cwd)
  THEN IF prompt_user
       THEN [allowed |-> asked.allowed, prompted |-> TRUE, st |-> asked.st]
       ELSE [allowed |-> FALSE, prompted |-> FALSE, st |-> st]
  ELSE IF _is_path_allowed(exec_cwd, st.config.allowed_paths)
  THEN [allowed |-> TRUE, prompted |-> FALSE,
        st |-> [st EXCEPT !.cache = CachePut(@, cache_key, TRUE)]]
  ELSE IF prompt_user
  THEN [allowed |-> asked.allowed, prompted |-> TRUE, st |-> asked.st]
  ELSE [allowed |-> FALSE, prompted |-> FALSE, st |-> st]

\* the saved config.yaml at start: the defaults, or one that allows docs only
PermConfigs ==
  {[always_allow |-> {"."}, allowed_paths |-> {"."}],
   [always_allow |-> {"docs"}, allowed_paths |-> {"docs"}]}

\* the file_path arguments, the commands and the cwd arguments checked
CheckedFiles == {"notes.txt", "/etc/hosts"}
CheckedCommands == {"ls"}
CheckedCwds == {"None", "/etc/hosts"}

\* the user's answer to a prompt, and whether config.yaml can be written
\* (save() is only called for the answer "2")
PermEnvs ==
  {e \in [choice : {"1", "2", "3"}, save_ok : BOOLEAN] : e.choice = "2" \/ e.save_ok}

\* the allow-list an operation kind consults
AllowList(kind, config) ==
  IF kind = "exec" THEN config.allowed_paths ELSE config.always_allow

\* what _add_path_to_whitelist stores for a normalized path
StoredPath(path) ==
  IF relative_to(path, Cwd)
  THEN StrRel(SubSeq(path, Len(Cwd) + 1, Len(path)))
  ELSE StrAbs(path)

\* the state instance i works on
InstanceState(i) ==
  ExecState(files, managers[i].cache, managers[i].config, disk_config)

\* how a check ended, for the history
DecisionOf(r, env) ==
  IF ~r.allowed THEN "denied"
  ELSE IF ~r.prompted THEN "auto"
  ELSE IF env.choice = "1" THEN "once"
  ELSE IF env.save_ok THEN "always"
  ELSE "always_unsaved"

\* one check by instance i that ended as r: the instance and the disk take
\* the state the check left, and the history records
\*   key     : the cache key (operation kind, target)
\*   target  : the normalized path tested against the allow-list
\*   stored  : the path an "always" answer stores
\*   covered : target was inside the project and under an allow-listed
\*             prefix of the instance's config when the check began
\*   cached  : the key was in the instance's cache when the check began
\*   earlier : how the earlier checks of this key by this instance ended
Checked(i, kind, key, target, stored, prompt_user, env, r) ==
  /\ perm_count < MaxChecks
  /\ perm_count' = perm_count + 1
  /\ managers' = [managers EXCEPT ![i] = [cache |-> r.st.cache, config |-> r.st.config]]
  /\ disk_config' = r.st.disk
  /\ decisions' = decisions \cup {[inst |-> i, key |-> key, decision |-> DecisionOf(r, env)]}
  /\ last_check' =
       [inst |-> i, kind |-> kind, key |-> key, target |-> target,
        prompt_user |-> prompt_user,
        allowed |-> r.allowed, prompted |-> r.prompted,
        decision |-> DecisionOf(r, env),
        covered |-> /\ _is_within_project(target)
                    /\ _is_path_allowed(target, AllowList(kind, managers[i].config)),
        cached |-> CacheHas(managers[i].cache, key),
        earlier |-> {d.decision : d \in {e \in decisions : e.inst = i /\ e.key = key}},
        listed_after |-> stored \in AllowList(kind, r.st.disk),
        same_cache |-> r.st.cache = managers[i].cache,
        same_config |-> r.st.config = managers[i].config,
        same_disk |-> r.st.disk = disk_config]
  /\ UNCHANGED edited

\* can_read_file is called on one of the instances I
ReadCheck(I) ==
  \E i \in I, file_path \in CheckedFiles, prompt_user \in BOOLEAN, env \in PermEnvs :
    \E r \in {can_read_file(file_path, prompt_user, InstanceState(i), env)} :
      Checked(i, "read", <<"read", _normalize_path(file_path)>>,
              _normalize_path(file_path), StoredPath(_normalize_path(file_path)),
              prompt_user, env, r)

\* can_write_file is called on one of the instances I
WriteCheck(I) ==
  \E i \in I, file_path \in CheckedFiles, prompt_user \in BOOLEAN, env \in PermEnvs :
    \E r \in {can_write_file(file_path, prompt_user, InstanceState(i), env)} :
      Checked(i, "write", <<"write", _normalize_path(file_path)>>,
              _normalize_path(file_path), StoredPath(_normalize_path(file_path)),
              prompt_user, env, r)

\* can_execute_command is called on one of the instances I
ExecCheck(I) ==
  \E i \in I, command \in CheckedCommands, cwd \in CheckedCwds,
     prompt_user \in BOOLEAN, env \in PermEnvs :
    \E r \in {can_execute_command(command, cwd, prompt_user, InstanceState(i), env)} :
      Checked(i, "exec", <<"exec", <<command, cwd>>>>,
              IF cwd # "None" THEN _normalize_path(cwd) ELSE Cwd,
              StoredPath(_normalize_path(command)),
              prompt_user, env, r)

\* the instance followed through checks, manual edits and reloads
Manager == "tool_executor.file_ops"

CanReadFile == ReadCheck({Manager})
CanWriteFile == WriteCheck({Manager})
CanExecuteCommand == ExecCheck({Manager})

\* the same checks, made through any instance of the process
AnyCanReadFile == ReadCheck(Instances)
AnyCanWriteFile == WriteCheck(Instances)
AnyCanExecuteCommand == ExecCheck(Instances)

\* reload_config: project_config is loaded again, permission_cache is kept
\* (a reload that finds the config it already holds changes nothing)
ReloadConfig ==
  /\ managers[Manager].config # disk_config
  /\ managers' = [managers EXCEPT ![Manager].config = disk_config]
  /\ UNCHANGED <<disk_config, decisions, last_check, edited, perm_count>>

\* the user revokes a permission by removing an entry of config.yaml
ManualEdit ==
  /\ ~edited
  /\ edited' = TRUE
  /\ \/ \E p \in disk_config.always_allow :
          disk_config' = [disk_config EXCEPT !.always_allow = @ \ {p}]
     \/ \E p \in disk_config.allowed_paths :
          disk_config' = [disk_config EXCEPT !.allowed_paths = @ \ {p}]
  /\ UNCHANGED <<managers, decisions, last_check, perm_count>>

\* what the permission checks leave alone
permFrame == <<loopVars, files, permission_cache, project_config, trace,
               exec_result, exec_call, exec_count, sideVars>>

InitPerm ==
  /\ disk_config \in PermConfigs
  /\ managers = Constructed(disk_config)
  /\ decisions = {}
  /\ last_check = NoneVal
  /\ edited = FALSE
  /\ perm_count = 0
  /\ files \in InitialFiles
  /\ files[<<"proj", "notes.txt">>] = AbsentFile
  /\ project_config = disk_config
  /\ ExecIdle
  /\ LoopIdle
  /\ SideIdle

NextPerm ==
  \/ CanReadFile /\ UNCHANGED permFrame
  \/ CanWriteFile /\ UNCHANGED permFrame
  \/ CanExecuteCommand /\ UNCHANGED permFrame
  \/ ReloadConfig /\ UNCHANGED permFrame
  \/ ManualEdit /\ UNCHANGED permFrame

\* the permission checks of one PermissionManager, with the reloads and
\* the manual edits of config.yaml
SpecPerm == InitPerm /\ [][NextPerm]_vars

NextProcess ==
  \/ AnyCanReadFile /\ UNCHANGED permFrame
  \/ AnyCanWriteFile /\ UNCHANGED permFrame
  \/ AnyCanExecuteCommand /\ UNCHANGED permFrame

\* the permission checks made through all the instances of one process,
\* without reload
SpecProcess == InitPerm /\ [][NextProcess]_vars

TypeOK ==
  /\ pc \in {"loop_head", "exec_tools", "done", "raised", "idle"}
  /\ iteration \in 0..max_iterations

(* ------------------- api/client.py: chat_stream ------------------------ *)

\* the file system and the permission files while none of them is used
DiskIdle ==
  /\ files \in InitialFiles
  /\ files[<<"proj", "notes.txt">>] = AbsentFile
  /\ disk_config = [always_allow |-> {"."}, allowed_paths |-> {"."}]
  /\ project_config = disk_config

\* the HTTP statuses the transport answers with
Statuses == {200, 429, 503, 504, 400, 500}

\* f"{status_code}"
StatusStr(status_code) ==
  CASE status_code = 200 -> "200" [] status_code = 429 -> "429"
    [] status_code = 503 -> "503" [] status_code = 504 -> "504"
    [] status_code = 400 -> "400" [] status_code = 500 -> "500"
    [] OTHER -> "0"

\* int(word): the integer the word denotes, or ValueError
IntOf(word) ==
  CASE word = "200" -> [raised |-> FALSE, value |-> 200]
    [] word = "429" -> [raised |-> FALSE, value |-> 429]
    [] word = "503" -> [raised |-> FALSE, value |-> 503]
    [] word = "504" -> [raised |-> FALSE, value |-> 504]
    [] word = "400" -> [raised |-> FALSE, value |-> 400]
    [] word = "500" -> [raised |-> FALSE, value |-> 500]
    [] word = "0"   -> [raised |-> FALSE, value |-> 0]
    [] OTHER        -> [raised |-> TRUE, value |-> 0]

\* the bodies of an error response: JSON without an "error" key, or JSON
\* whose error.message is the text given (a text is a sequence of words)
ErrorBodies ==
  {[kind |-> "no_error", message |-> <<>>],
   [kind |-> "error", message |-> <<"Rate", "limit", "exceeded">>]}

\* _extract_error_details: the text of the APIError of a non-200 response
_extract_error_details(body, status_code) ==
  <<"OpenRouter", "API", "error:", StatusStr(status_code)>>
    \o (IF body.kind = "error" THEN <<"-">> \o body.message ELSE <<>>)

\* str(e) of the exceptions the transport raises
NetworkErrors ==
  {<<"All", "connection", "attempts", "failed">>,
   <<"SSL", "error:", "certificate", "verify", "failed">>}

\* f"Streaming request failed: {e}"
StreamingRequestFailed(e) == <<"Streaming", "request", "failed:">> \o e

\* the position of the first "error:" in a text, 0 when there is none
FirstError(error_msg) ==
  IF \E i \in 1..Len(error_msg) : error_msg[i] = "error:"
  THEN CHOOSE i \in 1..Len(error_msg) :
         /\ error_msg[i] = "error:"
         /\ \A j \in 1..(i - 1) : error_msg[j] # "error:"
  ELSE 0

\* the word after position i is read as the status; status_code stays None
\* on IndexError and on ValueError
StatusAfter(error_msg, i) ==
  IF i = 0 \/ i = Len(error_msg) THEN [found |-> FALSE, value |-> 0]
  ELSE IF IntOf(error_msg[i + 1]).raised THEN [found |-> FALSE, value |-> 0]
  ELSE [found |-> TRUE, value |-> IntOf(error_msg[i + 1]).value]

ExtractStatusReads503(error_msg) == [found |-> TRUE, value |-> 503]

\* lines 291-297: the status code chat_stream reads out of str(e)
ExtractStatus(error_msg) == StatusAfter(error_msg, FirstError(error_msg))

_is_retryable_errorWith500(status_code) == status_code \in {429, 500, 503, 504}

\* _is_retryable_error: status_code in (429, 503, 504)
_is_retryable_error(status_code) == status_code \in {429, 503, 504}

AttemptsRemainInclusive == attempt <= retry_config.max_retries

\* attempt < self.max_retries
AttemptsRemain == attempt < retry_config.max_retries

NextDelayAdditive == delay + retry_config.retry_backoff_factor

\* delay *= self.retry_backoff_factor
NextDelay == delay * retry_config.retry_backoff_factor

\* the lines of a streamed body: the first characters of the line (at most
\* the six of "data: ") and the rest, which is a JSON text (given by the
\* value it decodes to) or another text
JsonText(value) == [kind |-> "json", value |-> value]

PlainText(text) == [kind |-> "text", text |-> text]

Chunk(content) == [choices |-> <<[delta |-> [content |-> content]]>>]

BlankLine == [head |-> "", rest |-> PlainText("")]

CommentLine == [head |-> ":", rest |-> PlainText(" OPENROUTER PROCESSING")]

Frame(content) == [head |-> "data: ", rest |-> JsonText(Chunk(content))]

FrameNoContent ==
  [head |-> "data: ",
   rest |-> JsonText([choices |-> <<[delta |-> [role |-> "assistant"]]>>])]

FrameNoChoices ==
  [head |-> "data: ", rest |-> JsonText([choices |-> <<>>])]

FrameUndecodable == [head |-> "data: ", rest |-> PlainText("{\"choices\": [")]

\* a payload that decodes, but not to an object: null
FrameNull == [head |-> "data: ", rest |-> JsonText(NoneVal)]

DoneMarker == [head |-> "data: ", rest |-> PlainText("[DONE]")]

EventLine == [head |-> "event:", rest |-> PlainText(" message")]

StreamLines ==
  {BlankLine, CommentLine, Frame("Hel"), Frame("lo"), FrameNoContent,
   FrameNoChoices, FrameUndecodable, FrameNull, DoneMarker, EventLine}

\* not line.strip() or line.startswith(":")
Discarded(line) ==
  \/ (line.head \in {"", " "} /\ line.rest = PlainText(""))
  \/ line.head = ":"

\* json.loads(data): the decoded value, or JSONDecodeError
JsonLoads(data) ==
  IF data.kind = "json"
  THEN [raised |-> FALSE, value |-> data.value]
  ELSE [raised |-> TRUE, value |-> [choices |-> <<>>]]

\* "choices" in chunk raises TypeError when chunk is None
InRaises(chunk) == chunk = NoneVal

\* str(e) of that TypeError
NotIterable ==
  <<"argument", "of", "type", "'NoneType'", "is", "not", "iterable">>

\* lines 236-239: the chunk carries choices[0].delta.content
HasContent(chunk) ==
  /\ "choices" \in DOMAIN chunk
  /\ chunk.choices # <<>>
  /\ "delta" \in DOMAIN chunk.choices[1]
  /\ "content" \in DOMAIN chunk.choices[1].delta

\* lines 226-243, one pass of the async for: what the line makes the
\* generator do
LineEffect(line) ==
  IF Discarded(line) THEN "continue"
  ELSE IF line.head # "data: " THEN "continue"
  ELSE IF line.rest = PlainText("[DONE]") THEN "break"
  ELSE IF JsonLoads(line.rest).raised THEN "continue"
  ELSE IF InRaises(JsonLoads(line.rest).value) THEN "raise"
  ELSE IF HasContent(JsonLoads(line.rest).value) THEN "yield"
  ELSE "continue"

\* the responses of the transport to one attempt: a non-200 status with a
\* body, a failure to connect, or a 200 whose lines arrive and whose
\* connection then ends or breaks
HttpFailure(status, body) ==
  [kind |-> "http", status |-> status, body |-> body, lines |-> <<>>,
   error |-> <<>>]

ConnectFailure(e) ==
  [kind |-> "network", status |-> 0, body |-> [kind |-> "no_error", message |-> <<>>],
   lines |-> <<>>, error |-> e]

Streamed(ls, e) ==
  [kind |-> "stream", status |-> 200, body |-> [kind |-> "no_error", message |-> <<>>],
   lines |-> ls, error |-> e]

HttpFailures == {HttpFailure(s, b) : s \in Statuses \ {200}, b \in ErrorBodies}

ConnectFailures == {ConnectFailure(e) : e \in NetworkErrors}

\* every streamed body of at most MaxLines lines
AllStreams ==
  {Streamed(ls, e) : ls \in SeqUpTo(StreamLines, MaxLines),
                     e \in NetworkErrors \cup {<<>>}}

\* four streamed bodies, for the runs that explore the retries
SampleStreams ==
  {Streamed(<<Frame("Hel"), Frame("lo"), DoneMarker>>, <<>>),
   Streamed(<<Frame("lo")>>, <<>>),
   Streamed(<<CommentLine, Frame("Hel")>>, <<"All", "connection", "attempts", "failed">>),
   Streamed(<<Frame("Hel"), FrameNull>>, <<>>)}

\* how an attempt ended, as the history keeps it
Outcome(r) == [kind |-> r.kind, status |-> r.status]

\* lines 288-304: the except clause of chat_stream, given the text of the
\* APIError and the status read out of it
HandleAPIError(r, error_msg, status) ==
  /\ last_error' = error_msg
  /\ outcomes' = Append(outcomes, Outcome(r))
  /\ IF status.found /\ status.value # 0 /\ _is_retryable_error(status.value)
        /\ AttemptsRemain
     THEN /\ cs_pc' = "sleeping"
          /\ waits' = Append(waits, [after |-> attempt + 1, delay |-> delay])
     ELSE /\ cs_pc' = "raised"
          /\ UNCHANGED waits

\* an attempt whose response is not a 200: _do_chat_stream raises the
\* APIError of lines 218-224
AttemptFailsStatus ==
  /\ cs_pc = "attempt"
  /\ \E r \in HttpFailures :
       /\ response' = r
       /\ HandleAPIError(r, _extract_error_details(r.body, r.status),
                         ExtractStatus(_extract_error_details(r.body, r.status)))
  /\ UNCHANGED <<retry_config, attempt, delay, lines, yielded>>

\* an attempt whose request fails before any response: lines 247-249
AttemptFailsNetwork ==
  /\ cs_pc = "attempt"
  /\ \E r \in ConnectFailures :
       /\ response' = r
       /\ HandleAPIError(r, StreamingRequestFailed(r.error),
                         ExtractStatus(StreamingRequestFailed(r.error)))
  /\ UNCHANGED <<retry_config, attempt, delay, lines, yielded>>

\* an attempt answered with a 200: the lines start to arrive
AttemptStreams(streams) ==
  /\ cs_pc = "attempt"
  /\ \E r \in streams :
       /\ response' = r
       /\ lines' = r.lines
  /\ cs_pc' = "streaming"
  /\ UNCHANGED <<retry_config, attempt, delay, last_error, yielded, outcomes,
                 waits>>

\* a line that makes the generator yield its delta.content
YieldFragment ==
  /\ cs_pc = "streaming"
  /\ lines # <<>>
  /\ LineEffect(Head(lines)) = "yield"
  /\ yielded' = Append(yielded, Head(lines).rest.value.choices[1].delta.content)
  /\ lines' = Tail(lines)
  /\ UNCHANGED <<cs_pc, retry_config, attempt, delay, last_error, response,
                 outcomes, waits>>

\* a line the generator passes over
SkipLine ==
  /\ cs_pc = "streaming"
  /\ lines # <<>>
  /\ LineEffect(Head(lines)) = "continue"
  /\ lines' = Tail(lines)
  /\ UNCHANGED <<cs_pc, retry_config, attempt, delay, last_error, response,
                 yielded, outcomes, waits>>

\* the generator ends, chat_stream returns
Returns ==
  /\ cs_pc' = "done"
  /\ outcomes' = Append(outcomes, Outcome(response))
  /\ UNCHANGED <<retry_config, attempt, delay, last_error, response, lines,
                 yielded, waits>>

\* data == "[DONE]": break, the lines left are not read
StreamDone ==
  /\ cs_pc = "streaming"
  /\ lines # <<>>
  /\ LineEffect(Head(lines)) = "break"
  /\ Returns

\* the body ends after its last line
StreamEnds ==
  /\ cs_pc = "streaming"
  /\ lines = <<>>
  /\ response.error = <<>>
  /\ Returns

\* the connection breaks after the last line delivered: lines 247-249
StreamBreaks ==
  /\ cs_pc = "streaming"
  /\ lines = <<>>
  /\ response.error # <<>>
  /\ HandleAPIError([response EXCEPT !.kind = "network"],
                    StreamingRequestFailed(response.error),
                    ExtractStatus(StreamingRequestFailed(response.error)))
  /\ UNCHANGED <<retry_config, attempt, delay, response, lines, yielded>>

\* the loop body raises on a line: the TypeError reaches lines 247-249
LineRaises ==
  /\ cs_pc = "streaming"
  /\ lines # <<>>
  /\ LineEffect(Head(lines)) = "raise"
  /\ HandleAPIError([response EXCEPT !.kind = "malformed"],
                    StreamingRequestFailed(NotIterable),
                    ExtractStatus(StreamingRequestFailed(NotIterable)))
  /\ UNCHANGED <<retry_config, attempt, delay, response, lines, yielded>>

\* asyncio.sleep(delay) is over: lines 302-303, then the next pass of the
\* for loop, or lines 307-309 when range(max_retries + 1) is used up
Wake ==
  /\ cs_pc = "sleeping"
  /\ delay' = NextDelay
  /\ attempt' = attempt + 1
  /\ cs_pc' = IF attempt + 1 <= retry_config.max_retries
              THEN "attempt" ELSE "raised"
  /\ UNCHANGED <<retry_config, last_error, response, lines, yielded, outcomes,
                 waits>>

\* what chat_stream leaves alone
streamFrame == <<loopVars, execVars, permVars, chatVars, adapterVars, coreVars>>

\* a call of chat_stream on a client constructed with the given settings
InitStream ==
  /\ cs_pc = "attempt"
  /\ retry_config \in [max_retries : 0..MaxRetries,
                       retry_initial_delay : {1, 2},
                       retry_backoff_factor : {1, 2, 3}]
  /\ attempt = 0
  /\ delay = retry_config.retry_initial_delay
  /\ last_error = <<>>
  /\ response = NoneVal
  /\ lines = <<>>
  /\ yielded = <<>>
  /\ outcomes = <<>>
  /\ waits = <<>>
  /\ ChatIdle
  /\ AdapterIdle
  /\ LoopIdle
  /\ ExecIdle
  /\ PermIdle
  /\ DiskIdle
  /\ CoreIdle

NextStream ==
  \/ AttemptFailsStatus /\ UNCHANGED streamFrame
  \/ AttemptFailsNetwork /\ UNCHANGED streamFrame
  \/ AttemptStreams(SampleStreams) /\ UNCHANGED streamFrame
  \/ YieldFragment /\ UNCHANGED streamFrame
  \/ SkipLine /\ UNCHANGED streamFrame
  \/ StreamDone /\ UNCHANGED streamFrame
  \/ StreamEnds /\ UNCHANGED streamFrame
  \/ StreamBreaks /\ UNCHANGED streamFrame
  \/ LineRaises /\ UNCHANGED streamFrame
  \/ Wake /\ UNCHANGED streamFrame

\* chat_stream with its retries
SpecStream == InitStream /\ [][NextStream]_vars

\* every step of chat_stream is taken: the transport answers, the lines
\* arrive, the sleeps end
SpecStreamFair == SpecStream /\ WF_vars(NextStream)

\* a single attempt, answered with a streamed body
InitLines ==
  /\ cs_pc = "attempt"
  /\ retry_config = [max_retries |-> 0, retry_initial_delay |-> 1,
                     retry_backoff_factor |-> 2]
  /\ attempt = 0
  /\ delay = retry_config.retry_initial_delay
  /\ last_error = <<>>
  /\ response = NoneVal
  /\ lines = <<>>
  /\ yielded = <<>>
  /\ outcomes = <<>>
  /\ waits = <<>>
  /\ ChatIdle
  /\ AdapterIdle
  /\ LoopIdle
  /\ ExecIdle
  /\ PermIdle
  /\ DiskIdle
  /\ CoreIdle

NextLines ==
  \/ AttemptStreams(AllStreams) /\ UNCHANGED streamFrame
  \/ YieldFragment /\ UNCHANGED streamFrame
  \/ SkipLine /\ UNCHANGED streamFrame
  \/ StreamDone /\ UNCHANGED streamFrame
  \/ StreamEnds /\ UNCHANGED streamFrame
  \/ StreamBreaks /\ UNCHANGED streamFrame
  \/ LineRaises /\ UNCHANGED streamFrame

\* _do_chat_stream over every streamed body
SpecLines == InitLines /\ [][NextLines]_vars

(* ------------------------ cli.py: _handle_chat ------------------------- *)

\* the tokens client.chat_stream yields, as characters: the empty
\* delta.content and two texts
ChatTokens == {<<>>, <<"H">>, <<"i", "!">>}

\* what a call of client.chat_stream delivers: its tokens, then it returns
\* or raises
ChatStreams ==
  [tokens : SeqUpTo(ChatTokens, MaxTokens), ending : {"return", "raise"}]

\* session.add_message(role, content)
add_message(msgs, role, content) ==
  Append(msgs, [role |-> role, content |-> content])

CommitAllowedIgnoresCancel == response_text # <<>>

\* line 708: response_text and not cancel_token.is_cancelled
CommitAllowed == response_text # <<>> /\ ~cancelled

\* CancellationToken.cancel, called from the thread that watches the keys
Cancel ==
  /\ chat_pc \in {"streaming", "after_loop"}
  /\ ~cancelled
  /\ cancelled' = TRUE
  /\ chat_log' = [kind |-> "cancel", at |-> chat_pc, text |-> response_text,
                  left |-> Len(incoming.tokens)]
  /\ UNCHANGED <<chat_pc, incoming, response_text, session>>

\* lines 689-703: a token arrives and the flag is not set
ConsumeToken ==
  /\ chat_pc = "streaming"
  /\ incoming.tokens # <<>>
  /\ ~cancelled
  /\ response_text' = response_text \o Head(incoming.tokens)
  /\ incoming' = [incoming EXCEPT !.tokens = Tail(@)]
  /\ UNCHANGED <<chat_pc, cancelled, session, chat_log>>

\* lines 695-698: a token arrives and the flag is set: break
Interrupted ==
  /\ chat_pc = "streaming"
  /\ incoming.tokens # <<>>
  /\ cancelled
  /\ incoming' = [incoming EXCEPT !.tokens = Tail(@)]
  /\ chat_pc' = "after_loop"
  /\ UNCHANGED <<cancelled, response_text, session, chat_log>>

\* chat_stream returns: the async for is over
ChatStreamReturns ==
  /\ chat_pc = "streaming"
  /\ incoming.tokens = <<>>
  /\ incoming.ending = "return"
  /\ chat_pc' = "after_loop"
  /\ UNCHANGED <<cancelled, incoming, response_text, session, chat_log>>

\* chat_stream raises: lines 712-723 report the error
ChatStreamRaises ==
  /\ chat_pc = "streaming"
  /\ incoming.tokens = <<>>
  /\ incoming.ending = "raise"
  /\ chat_pc' = "prompt"
  /\ UNCHANGED <<cancelled, incoming, response_text, session, chat_log>>

\* lines 705-710: the response is added to the session, or not, and
\* _handle_chat returns to the REPL
Commit ==
  /\ chat_pc = "after_loop"
  /\ session' = IF CommitAllowed
                THEN add_message(session, "assistant", response_text)
                ELSE session
  /\ chat_pc' = "prompt"
  /\ UNCHANGED <<cancelled, incoming, response_text, chat_log>>

\* what _handle_chat leaves alone
chatFrame == <<loopVars, execVars, permVars, streamVars, adapterVars, coreVars>>

\* _handle_chat after line 682, session.add_message("user", user_input)
InitChat ==
  /\ chat_pc = "streaming"
  /\ cancelled = FALSE
  /\ incoming \in ChatStreams
  /\ response_text = <<>>
  /\ session = add_message(<<>>, "user", <<"h", "i">>)
  /\ chat_log = NoneVal
  /\ StreamIdle
  /\ AdapterIdle
  /\ LoopIdle
  /\ ExecIdle
  /\ PermIdle
  /\ DiskIdle
  /\ CoreIdle

NextChat ==
  \/ Cancel /\ UNCHANGED chatFrame
  \/ ConsumeToken /\ UNCHANGED chatFrame
  \/ Interrupted /\ UNCHANGED chatFrame
  \/ ChatStreamReturns /\ UNCHANGED chatFrame
  \/ ChatStreamRaises /\ UNCHANGED chatFrame
  \/ Commit /\ UNCHANGED chatFrame

\* the steps of _handle_chat; the stream delivers what it has and ends
SpecChat ==
  /\ InitChat
  /\ [][NextChat]_vars
  /\ WF_vars((ConsumeToken \/ Interrupted \/ ChatStreamReturns
                \/ ChatStreamRaises \/ Commit) /\ UNCHANGED chatFrame)

(* -------------------------- api/tool_caller.py ------------------------- *)

\* str.startswith on the model identifier
StartsWith(m, prefix) ==
  CASE prefix = "anthropic/" -> m = "anthropic/claude-3-opus"
    [] prefix = "openai/"    -> m = "openai/gpt-4"
    [] OTHER                 -> FALSE

\* get_tool_caller: the adapter class chosen for a model
get_tool_caller(m) ==
  IF StartsWith(m, "anthropic/") THEN "AnthropicToolCaller"
  ELSE IF StartsWith(m, "openai/") THEN "OpenAIToolCaller"
  ELSE "AnthropicToolCaller"

\* AnthropicToolCaller.format_tool_results
AnthropicFormatToolResults(results) ==
  [role |-> "user", content_type |-> "blocks",
   payload |->
     [i \in 1..Len(results) |->
        [type |-> "tool_result",
         tool_use_id |-> results[i].tool_use_id,
         content |->
           [kind |-> "blocks",
            blocks |-> IF results[i].content # <<>>
                       THEN <<[type |-> "text", text |-> results[i].content]>>
                       ELSE <<>>]]]]

\* OpenAIToolCaller.format_tool_results
OpenAIFormatToolResults(results) ==
  [role |-> "tool", content_type |-> "messages",
   payload |->
     [i \in 1..Len(results) |->
        [role |-> "tool",
         tool_call_id |-> results[i].tool_use_id,
         content |-> [kind |-> "text", text |-> results[i].content]]]]

format_tool_results(caller, results) ==
  IF caller = "OpenAIToolCaller"
  THEN OpenAIFormatToolResults(results)
  ELSE AnthropicFormatToolResults(results)

(* -------------- api/tool_caller.py: messages and tool calls ------------ *)

\* ToolCall(**call_data).dict(): the entries of Message.tool_calls
ToolCallDump(call_data) ==
  [id |-> call_data.id, type |-> "function", function |-> call_data.function]

MessageToolCalls ==
  {ToolCallDump(RawWrite), ToolCallDump(RawUnknown), ToolCallDump(RawBadArgs)}

TextBlock(text) == [type |-> "text", text |-> text]

\* a tool-use block left in the content by an earlier response
StaleToolUse ==
  [type |-> "tool_use", id |-> "toolu_0", name |-> "read_file",
   input |-> [encoding |-> "dict", value |-> [file_path |-> "notes.txt"]]]

\* Message.content: None, a string, or a list of blocks
MessageContents ==
  {NoneVal,
   [kind |-> "text", text |-> <<>>],
   [kind |-> "text", text |-> <<"answer">>],
   [kind |-> "blocks", blocks |-> <<>>],
   [kind |-> "blocks", blocks |-> <<TextBlock(<<"thinking">>)>>],
   [kind |-> "blocks", blocks |-> <<TextBlock(<<"thinking">>), StaleToolUse>>],
   [kind |-> "blocks", blocks |-> <<StaleToolUse, TextBlock(<<"thinking">>)>>]}

\* the assistant messages given to serialize_message
AssistantInputs ==
  {Message("assistant", c, tcs) :
     c \in MessageContents,
     tcs \in {NoneVal} \cup {[kind |-> "list", items |-> s] :
                               s \in SeqUpTo(MessageToolCalls, MaxToolCalls)}}

\* the dicts of a tool_results list, as call_with_tool_loop builds them
ToolResultInputs ==
  SeqUpTo({[type |-> "tool_result", tool_use_id |-> id, content |-> c] :
             id \in {"call_1", "call_2"}, c \in {<<>>, <<"out">>}},
          MaxToolCalls)

\* message.model_dump(exclude=..., exclude_none=True): role, which is
\* required, and the optional fields that are not None and not excluded
DumpKeys(message, exclude) ==
  {"role"} \cup {k \in {"content", "tool_calls"} \ exclude : message[k] # NoneVal}

model_dump(message, exclude) ==
  [k \in DumpKeys(message, exclude) |-> message[k]]

\* msg_dict[key] = value
SetItem(msg_dict, key, value) ==
  [k \in DOMAIN msg_dict \cup {key} |-> IF k = key THEN value ELSE msg_dict[k]]

\* message.tool_calls and len(message.tool_calls) > 0
HasToolCalls(message) ==
  message.tool_calls # NoneVal /\ message.tool_calls.items # <<>>

RetainedKeepsToolUse(content) ==
  IF content = NoneVal THEN <<>>
  ELSE IF content.kind = "text"
  THEN (IF content.text # <<>> THEN <<TextBlock(content.text)>> ELSE <<>>)
  ELSE content.blocks

\* lines 118-130: the blocks kept from message.content
Retained(content) ==
  IF content = NoneVal THEN <<>>
  ELSE IF content.kind = "text"
  THEN (IF content.text # <<>> THEN <<TextBlock(content.text)>> ELSE <<>>)
  ELSE SelectSeq(content.blocks, LAMBDA block : block.type # "tool_use")

\* lines 133-142: one tool_use block per entry of message.tool_calls
ToolUseBlocks(items) ==
  [i \in 1..Len(items) |->
     [type |-> "tool_use", id |-> items[i].id, name |-> items[i].function.name,
      input |-> items[i].function.arguments]]

\* AnthropicToolCaller.serialize_message
AnthropicSerializeMessage(message) ==
  IF HasToolCalls(message)
  THEN SetItem(model_dump(message, {"tool_calls"}), "content",
               [kind |-> "blocks",
                blocks |-> Retained(message.content)
                             \o ToolUseBlocks(message.tool_calls.items)])
  ELSE IF message.content = NoneVal /\ message.role = "assistant"
  THEN SetItem(model_dump(message, {"tool_calls"}), "content",
               [kind |-> "blocks", blocks |-> <<TextBlock(<<>>)>>])
  ELSE model_dump(message, {"tool_calls"})

\* ToolCaller.serialize_message, which OpenAIToolCaller inherits
BaseSerializeMessage(message) == model_dump(message, {})

serialize_message(caller, message) ==
  IF caller = "OpenAIToolCaller"
  THEN BaseSerializeMessage(message)
  ELSE AnthropicSerializeMessage(message)

\* what extract_tool_calls hands back: the ToolCalls, or an exception
Extracted(calls) == [raised |-> FALSE, calls |-> calls]

ExtractRaised == [raised |-> TRUE, calls |-> <<>>]

\* d.get(key, default)
DictGet(d, key, default) == IF key \in DOMAIN d THEN d[key] ELSE default

\* an entry of a decoded list that is a string and not an object
NotAnObject == [json |-> "string", value |-> "oops"]

\* entry.get exists: the entry is a dict
HasGet(entry) == "json" \notin DOMAIN entry

\* the {} that get("input", {}) and get("function", {}) fall back to
EmptyDict == [encoding |-> "dict", value |-> <<>>]

\* block.get("type") == "tool_use"
IsToolUse(block) == "type" \in DOMAIN block /\ block.type = "tool_use"

\* lines 85-96: the tool_use blocks of a content list
ToolUseOnly(blocks) == SelectSeq(blocks, IsToolUse)

\* lines 87-94: ToolCall(id=..., type="function", function={name, arguments})
ToolCallsOfBlocks(used) ==
  [i \in 1..Len(used) |->
     [id |-> DictGet(used[i], "id", ""), type |-> "function",
      function |-> [name |-> DictGet(used[i], "name", ""),
                    arguments |-> DictGet(used[i], "input", EmptyDict)]]]

\* some entry of the list has no get(): the loop raises AttributeError
SomeNotObject(entries) == \E i \in 1..Len(entries) : ~HasGet(entries[i])

\* AnthropicToolCaller.extract_tool_calls: for block in content iterates the
\* blocks of a list, and the characters of a string, which have no get();
\* a content of None is not iterable
AnthropicExtractToolCalls(response_dict) ==
  IF "content" \notin DOMAIN response_dict.message THEN Extracted(<<>>)
  ELSE IF response_dict.message.content = NoneVal THEN ExtractRaised
  ELSE IF response_dict.message.content.kind = "text"
  THEN (IF response_dict.message.content.text = <<>>
        THEN Extracted(<<>>) ELSE ExtractRaised)
  ELSE IF SomeNotObject(response_dict.message.content.blocks)
  THEN ExtractRaised
  ELSE Extracted(ToolCallsOfBlocks(
                   ToolUseOnly(response_dict.message.content.blocks)))

\* tool_call_data.get("type") == "function"
IsFunction(d) == "type" \in DOMAIN d /\ d.type = "function"

\* line 200: the entries whose type is "function"
FunctionOnly(items) == SelectSeq(items, IsFunction)

\* lines 201-205: ToolCall(id=..., type="function", function=...)
ToolCallsOfDicts(used) ==
  [i \in 1..Len(used) |->
     [id |-> DictGet(used[i], "id", ""), type |-> "function",
      function |-> DictGet(used[i], "function", <<>>)]]

\* OpenAIToolCaller.extract_tool_calls: a tool_calls of None is not
\* iterable, and an entry that is no dict has no get()
OpenAIExtractToolCalls(response_dict) ==
  IF "tool_calls" \notin DOMAIN response_dict.message THEN Extracted(<<>>)
  ELSE IF response_dict.message.tool_calls = NoneVal THEN ExtractRaised
  ELSE IF SomeNotObject(response_dict.message.tool_calls.items)
  THEN ExtractRaised
  ELSE Extracted(ToolCallsOfDicts(
                   FunctionOnly(response_dict.message.tool_calls.items)))

extract_tool_calls(caller, response_dict) ==
  IF caller = "OpenAIToolCaller"
  THEN OpenAIExtractToolCalls(response_dict)
  ELSE AnthropicExtractToolCalls(response_dict)

ToolCallers == {"AnthropicToolCaller", "OpenAIToolCaller"}

\* serialize_message(message) of one of the adapters
SerializeMessage ==
  \E caller \in ToolCallers, message \in AssistantInputs :
    /\ adapter_in' = [op |-> "serialize_message", caller |-> caller,
                      argument |-> message]
    /\ adapter_out' = [serialized |-> serialize_message(caller, message),
                       extracted |-> NoneVal]

\* extract_tool_calls of the same adapter on a response whose message is the
\* serialization just made
ExtractToolCalls ==
  /\ adapter_in # NoneVal
  /\ adapter_in.op = "serialize_message"
  /\ adapter_out.extracted = NoneVal
  /\ adapter_out' =
       [adapter_out EXCEPT !.extracted =
          extract_tool_calls(adapter_in.caller, [message |-> adapter_out.serialized])]
  /\ UNCHANGED adapter_in

\* a tool_use block that lacks its id, and one that lacks its name
ToolUseNoId ==
  [type |-> "tool_use", name |-> "read_file",
   input |-> [encoding |-> "dict", value |-> [file_path |-> "notes.txt"]]]

ToolUseNoName ==
  [type |-> "tool_use", id |-> "toolu_1",
   input |-> [encoding |-> "dict", value |-> [file_path |-> "notes.txt"]]]

\* a tool_calls entry that lacks its id
FunctionNoId == [type |-> "function", function |-> RawWrite.function]

\* the content blocks and the tool_calls entries a provider's response holds
ResponseBlocks ==
  {TextBlock(<<"thinking">>), StaleToolUse, ToolUseNoId, ToolUseNoName,
   NotAnObject}

ResponseEntries ==
  {ToolCallDump(RawWrite), ToolCallDump(RawBadArgs), FunctionNoId, NotAnObject}

\* the response_dict values given to extract_tool_calls
ProviderResponses(caller) ==
  IF caller = "OpenAIToolCaller"
  THEN {[message |-> [role |-> "assistant"]],
        [message |-> [role |-> "assistant", tool_calls |-> NoneVal]]}
       \cup {[message |-> [role |-> "assistant",
                           tool_calls |-> [kind |-> "list", items |-> s]]] :
               s \in SeqUpTo(ResponseEntries, MaxToolCalls)}
  ELSE {[message |-> [role |-> "assistant"]],
        [message |-> [role |-> "assistant", content |-> NoneVal]],
        [message |-> [role |-> "assistant",
                      content |-> [kind |-> "text", text |-> <<"answer">>]]]}
       \cup {[message |-> [role |-> "assistant",
                           content |-> [kind |-> "blocks", blocks |-> s]]] :
               s \in SeqUpTo(ResponseBlocks, MaxToolCalls)}

\* extract_tool_calls(response_dict) of one of the adapters on a provider's
\* response
ExtractFromResponse ==
  \E caller \in ToolCallers :
    \E response_dict \in ProviderResponses(caller) :
      /\ adapter_in' = [op |-> "extract_tool_calls", caller |-> caller,
                        argument |-> response_dict]
      /\ adapter_out' = [extracted |-> extract_tool_calls(caller, response_dict)]

\* format_tool_results(tool_results) of one of the adapters
FormatToolResults ==
  \E caller \in ToolCallers, results \in ToolResultInputs :
    /\ adapter_in' = [op |-> "format_tool_results", caller |-> caller,
                      argument |-> results]
    /\ adapter_out' = [formatted |-> format_tool_results(caller, results)]

\* what the adapters leave alone
adapterFrame == <<loopVars, execVars, permVars, streamVars, chatVars, coreVars>>

InitAdapter ==
  /\ adapter_in = NoneVal
  /\ adapter_out = NoneVal
  /\ StreamIdle
  /\ ChatIdle
  /\ LoopIdle
  /\ ExecIdle
  /\ PermIdle
  /\ DiskIdle
  /\ CoreIdle

NextAdapter ==
  \/ SerializeMessage /\ UNCHANGED adapterFrame
  \/ ExtractToolCalls /\ UNCHANGED adapterFrame
  \/ ExtractFromResponse /\ UNCHANGED adapterFrame
  \/ FormatToolResults /\ UNCHANGED adapterFrame

\* the calls of the two Provider Adapters
SpecAdapter == InitAdapter /\ [][NextAdapter]_vars

(* ------------------------------ core/agent.py -------------------------- *)

\* a str value of an Optional[str] field
Str(text) == [kind |-> "str", text |-> text]

ActionTypes == {"exec", "read", "write", "search"}

\* PlanAction(type=..., ...) as PlanParser builds it: executed, result and
\* error keep their defaults
PlanAction(type) ==
  [type |-> type, executed |-> FALSE, result |-> NoneVal, error |-> NoneVal]

\* how file_ops.read and file_ops.write end
FileReadOutcomes ==
  {[raised |-> FALSE, value |-> <<"data">>],
   [raised |-> FALSE, value |-> <<>>],
   [raised |-> TRUE, value |-> <<"File not found: ", "notes.txt">>]}

FileWriteOutcomes ==
  {[raised |-> FALSE, value |-> <<>>],
   [raised |-> TRUE, value |-> <<"Permission denied: ", "notes.txt">>]}

\* how the tool that an action of this type calls ends
ActionOutcomes(type) ==
  CASE type = "exec" -> {CommandExecute("ls", [proc |-> p]) : p \in ProcOutcomes}
    [] type = "read" -> FileReadOutcomes
    [] type = "write" -> FileWriteOutcomes
    [] OTHER -> {WebSearch("q", [search |-> s]) : s \in SearchOutcomes}

ExecResultDropsEmpty(stdout) == IF stdout = <<>> THEN NoneVal ELSE Str(stdout)

\* line 154: action.result = stdout
ExecResult(stdout) == Str(stdout)

\* line 160: stderr or f"Command failed with exit code {returncode}"
ExecError(r) ==
  Str(IF r.stderr # <<>> THEN r.stderr
      ELSE <<"Command failed with exit code ", NumStr(r.returncode)>>)

\* lines 152-179: the branch of the action's type once its tool has
\* returned r
ActionDone(action, r) ==
  CASE action.type = "exec" ->
         [action EXCEPT !.result = ExecResult(r.stdout),
                        !.error = IF r.returncode = 0 THEN @ ELSE ExecError(r)]
    [] action.type = "write" ->
         [action EXCEPT !.result = Str(<<"Wrote ", "0", " bytes">>)]
    [] OTHER -> [action EXCEPT !.result = Str(r.value)]

\* _execute_action: the action as it leaves it, and whether it raised
\* (choice "2" after a failure cancels the plan)
_execute_action(action, r, choice) ==
  IF r.raised
  THEN [action |-> [action EXCEPT !.error = Str(r.value)], raised |-> choice = "2"]
  ELSE [action |-> ActionDone(action, r), raised |-> FALSE]

\* lines 130-133: one pass of execute_plan's loop that ended as res
PlanStep(res) ==
  IF res.raised
  THEN /\ plan' = [plan EXCEPT ![plan_i] = res.action]
       /\ plan_pc' = "raised"
       /\ UNCHANGED plan_i
  ELSE /\ plan' = [plan EXCEPT ![plan_i] = [res.action EXCEPT !.executed = TRUE]]
       /\ plan_i' = plan_i + 1
       /\ UNCHANGED plan_pc

\* one pass of the loop of execute_plan
ExecuteAction ==
  /\ plan_pc = "executing"
  /\ plan_i <= Len(plan)
  /\ \E r \in ActionOutcomes(plan[plan_i].type), choice \in {"1", "2", "3"} :
       PlanStep(_execute_action(plan[plan_i], r, choice))

\* line 136: execute_plan returns the summary
PlanReturns ==
  /\ plan_pc = "executing"
  /\ plan_i > Len(plan)
  /\ plan_pc' = "done"
  /\ UNCHANGED <<plan, plan_i>>

\* the plans PlanParser.build_plan hands over: one action or more
Plans ==
  {[i \in 1..Len(ts) |-> PlanAction(ts[i])] :
     ts \in SeqUpTo(ActionTypes, MaxActions) \ {<<>>}}

planFrame == <<loopVars, execVars, permVars, streamVars, chatVars, adapterVars,
               personaVars, procVars, sessionVars>>

InitPlan ==
  /\ plan \in Plans
  /\ plan_pc = "executing"
  /\ plan_i = 1
  /\ StreamIdle
  /\ ChatIdle
  /\ AdapterIdle
  /\ LoopIdle
  /\ ExecIdle
  /\ PermIdle
  /\ DiskIdle
  /\ PersonaIdle
  /\ ProcIdle
  /\ SessionIdle

NextPlan ==
  \/ ExecuteAction /\ UNCHANGED planFrame
  \/ PlanReturns /\ UNCHANGED planFrame

\* Agent.execute_plan on a plan
SpecPlan == InitPlan /\ [][NextPlan]_vars

(* -------------------------- core/agent_registry.py --------------------- *)

\* a value of an Optional field that is not None
Val(v) == [kind |-> "val", v |-> v]

\* the pieces of a persona file's text: the "---" delimiter, a newline, a
\* blank, a word, and a "key: value" line of the YAML block
Delim == [t |-> "delim"]
Newline == [t |-> "nl"]
Blank == [t |-> "sp"]
Word(w) == [t |-> "word", w |-> w]
YamlLine(key, value) == [t |-> "line", key |-> key, value |-> value]

\* the prompts of the saved agents
Prompts ==
  {<<>>,
   <<Word("Be"), Blank, Word("brief")>>,
   <<Blank, Word("Be")>>,
   <<Word("Be"), Newline>>,
   <<Word("a"), Delim, Word("b")>>}

\* AgentDefinition(...)
AgentDefinitions ==
  [name : {"helper"}, category : {"general"}, description : {"helps"},
   prompt : Prompts, version : {"1.0"},
   model : {NoneVal, Val("gpt")},
   temperature : {NoneVal, Val(0), Val(1)},
   max_tokens : {NoneVal, Val(0), Val(100)},
   tools : {NoneVal, Val(<<>>), Val(<<"read_file">>)},
   scope : {"user", "project"}]

\* if self.model / if self.max_tokens / if self.tools
TruthyField(agent, key) ==
  /\ agent[key] # NoneVal
  /\ agent[key].v # (CASE key = "model" -> ""
                       [] key = "tools" -> <<>>
                       [] OTHER -> 0)

\* line 55: if self.temperature is not None
TemperatureWritten(agent) == agent.temperature # NoneVal

\* lines 45-60: the keys of the frontmatter dict
FrontmatterKeys(agent) ==
  {"name", "category", "description", "version", "scope"}
    \cup {k \in {"model", "max_tokens", "tools"} : TruthyField(agent, k)}
    \cup {k \in {"temperature"} : TemperatureWritten(agent)}

\* yaml.dump sorts the keys
SortedKeys ==
  <<"category", "description", "max_tokens", "model", "name", "scope",
    "temperature", "tools", "version">>

\* the value of a key in the frontmatter dict: the field, unwrapped
FrontmatterValue(agent, key) ==
  IF key \in {"model", "temperature", "max_tokens", "tools"}
  THEN agent[key].v ELSE agent[key]

\* the text of one line of the dump
DumpLine(agent, key) == <<YamlLine(key, FrontmatterValue(agent, key)), Newline>>

RECURSIVE DumpLines(_, _)
DumpLines(agent, keys) ==
  IF keys = <<>> THEN <<>>
  ELSE DumpLine(agent, Head(keys)) \o DumpLines(agent, Tail(keys))

\* line 62: "---\n" + yaml.dump(frontmatter) + "---\n"
to_frontmatter(agent) ==
  <<Delim, Newline>>
    \o DumpLines(agent, SelectSeq(SortedKeys, LAMBDA k : k \in FrontmatterKeys(agent)))
    \o <<Delim, Newline>>

\* line 66
to_markdown(agent) == to_frontmatter(agent) \o agent.prompt

\* the position of the first "---" of text at or after position from, or 0
FindDelim(text, from) ==
  IF \E i \in from..Len(text) : text[i] = Delim
  THEN CHOOSE i \in from..Len(text) :
         text[i] = Delim /\ \A j \in from..(i - 1) : text[j] # Delim
  ELSE 0

\* content.split("---", 2) on a content that starts with "---": the part
\* between the first two delimiters and the part after the second
SplitParts(content) ==
  [yaml |-> SubSeq(content, 2, FindDelim(content, 2) - 1),
   rest |-> SubSeq(content, FindDelim(content, 2) + 1, Len(content))]

IsSpace(piece) == piece \in {Newline, Blank}

\* str.strip()
RECURSIVE LStrip(_)
LStrip(text) ==
  IF text # <<>> /\ IsSpace(Head(text)) THEN LStrip(Tail(text)) ELSE text

RECURSIVE RStrip(_)
RStrip(text) ==
  IF text # <<>> /\ IsSpace(text[Len(text)])
  THEN RStrip(SubSeq(text, 1, Len(text) - 1)) ELSE text

Strip(text) == RStrip(LStrip(text))

\* yaml.safe_load of the block: the dict of its lines
HasKey(block, key) ==
  \E i \in 1..Len(block) : block[i].t = "line" /\ block[i].key = key

ValueOf(block, key) ==
  block[CHOOSE i \in 1..Len(block) : block[i].t = "line" /\ block[i].key = key].value

\* frontmatter.get(key) of a str field, with its default
GetStr(block, key, default) ==
  IF HasKey(block, key) THEN ValueOf(block, key) ELSE default

\* frontmatter.get(key) of an Optional field
GetOptional(block, key) ==
  IF HasKey(block, key) THEN Val(ValueOf(block, key)) ELSE NoneVal

\* lines 88-102: the AgentDefinition built from the two parts
FromParts(parts) ==
  [name |-> GetStr(parts.yaml, "name", ""),
   category |-> GetStr(parts.yaml, "category", ""),
   description |-> GetStr(parts.yaml, "description", ""),
   prompt |-> Strip(parts.rest),
   version |-> GetStr(parts.yaml, "version", "1.0"),
   model |-> GetOptional(parts.yaml, "model"),
   temperature |-> GetOptional(parts.yaml, "temperature"),
   max_tokens |-> GetOptional(parts.yaml, "max_tokens"),
   tools |-> GetOptional(parts.yaml, "tools"),
   scope |-> GetStr(parts.yaml, "scope", "user")]

\* AgentDefinition.from_file on a file that to_markdown wrote
from_file(content) == FromParts(SplitParts(content))

\* agent.save()
SaveAgent ==
  \E agent \in AgentDefinitions :
    /\ persona' = agent
    /\ persona_file' = to_markdown(agent)
    /\ persona_loaded' = NoneVal

\* AgentDefinition.from_file(agent.file_path)
LoadAgent ==
  /\ persona_file # NoneVal
  /\ persona_loaded = NoneVal
  /\ persona_loaded' = from_file(persona_file)
  /\ UNCHANGED <<persona, persona_file>>

personaFrame == <<loopVars, execVars, permVars, streamVars, chatVars, adapterVars,
                  planVars, procVars, sessionVars>>

InitPersona ==
  /\ PersonaIdle
  /\ PlanIdle
  /\ ProcIdle
  /\ SessionIdle
  /\ StreamIdle
  /\ ChatIdle
  /\ AdapterIdle
  /\ LoopIdle
  /\ ExecIdle
  /\ PermIdle
  /\ DiskIdle

NextPersona ==
  \/ SaveAgent /\ UNCHANGED personaFrame
  \/ LoadAgent /\ UNCHANGED personaFrame

\* saving AgentDefinitions and loading them back
SpecPersona == InitPersona /\ [][NextPersona]_vars

(* ------------- tools/command_exec.py: the subprocess ------------------- *)

\* the ways a subprocess exits by itself
ExitOutcomes == {p \in ProcOutcomes : p.kind = "exit"}

\* the subprocess of the call in progress
Child == children[Len(children)]

SetChild(c) == [children EXCEPT ![Len(children)] = c]

\* process.kill(): SIGKILL ends a running child; one that has exited keeps
\* its status
Killed(c) == IF c.state = "running" THEN [state |-> "exited", proc |-> [kind |-> "killed"]] ELSE c

NotWaitedFor(c) == c

\* await process.wait(), and the wait inside process.communicate(): the
\* exit status is collected
WaitedFor(c) == [c EXCEPT !.state = "reaped"]

\* execute(command) is called
ExecuteBegins ==
  /\ proc_pc \in {"idle", "returned", "raised"}
  /\ proc_calls < MaxExec
  /\ proc_calls' = proc_calls + 1
  /\ proc_pc' = "spawning"
  /\ proc_ret' = NoneVal
  /\ UNCHANGED children

\* lines 40-44: create_subprocess_shell starts the child
Spawn ==
  /\ proc_pc = "spawning"
  /\ children' = Append(children, [state |-> "running"])
  /\ proc_pc' = "communicating"
  /\ UNCHANGED <<proc_ret, proc_calls>>

\* lines 40-44, 81-83: create_subprocess_shell raises, no child exists
SpawnFails ==
  /\ proc_pc = "spawning"
  /\ proc_pc' = "raised"
  /\ proc_ret' = CommandExecute("ls", [proc |-> [kind |-> "spawn_fail"]])
  /\ UNCHANGED <<children, proc_calls>>

\* the running child exits
ChildExits ==
  /\ proc_pc \in {"communicating", "waiting"}
  /\ Child.state = "running"
  /\ \E p \in ExitOutcomes : children' = SetChild([state |-> "exited", proc |-> p])
  /\ UNCHANGED <<proc_pc, proc_ret, proc_calls>>

\* lines 47-49, 57-77: communicate() ends within the timeout, execute
\* returns the output and the exit code
CommunicateReturns ==
  /\ proc_pc = "communicating"
  /\ Child.state = "exited"
  /\ children' = SetChild(WaitedFor(Child))
  /\ proc_ret' = CommandExecute("ls", [proc |-> Child.proc])
  /\ proc_pc' = "returned"
  /\ UNCHANGED proc_calls

\* lines 50-51: wait_for raises TimeoutError and the child is killed
TimeoutElapses ==
  /\ proc_pc = "communicating"
  /\ children' = SetChild(Killed(Child))
  /\ proc_pc' = "waiting"
  /\ UNCHANGED <<proc_ret, proc_calls>>

\* lines 52-55: process.wait() returns and the timeout error is raised
WaitReturns ==
  /\ proc_pc = "waiting"
  /\ Child.state = "exited"
  /\ children' = SetChild(WaitedFor(Child))
  /\ proc_ret' = CommandExecute("ls", [proc |-> [kind |-> "timeout"]])
  /\ proc_pc' = "raised"
  /\ UNCHANGED proc_calls

procFrame == <<loopVars, execVars, permVars, streamVars, chatVars, adapterVars,
               planVars, personaVars, sessionVars>>

InitProc ==
  /\ ProcIdle
  /\ SessionIdle
  /\ PlanIdle
  /\ PersonaIdle
  /\ StreamIdle
  /\ ChatIdle
  /\ AdapterIdle
  /\ LoopIdle
  /\ ExecIdle
  /\ PermIdle
  /\ DiskIdle

NextProc ==
  \/ ExecuteBegins /\ UNCHANGED procFrame
  \/ Spawn /\ UNCHANGED procFrame
  \/ SpawnFails /\ UNCHANGED procFrame
  \/ ChildExits /\ UNCHANGED procFrame
  \/ CommunicateReturns /\ UNCHANGED procFrame
  \/ TimeoutElapses /\ UNCHANGED procFrame
  \/ WaitReturns /\ UNCHANGED procFrame

\* the execute calls of one CommandExecutor
SpecProc == InitProc /\ [][NextProc]_vars

(* ----------------------------- core/session.py ------------------------- *)

\* Message(role=role, content=content)
SessionMessage(role, content) == [role |-> role, content |-> content]

\* line 25: the message __init__ puts first
SystemMessage == SessionMessage("system", "You are Madison.")

\* messages[-n:], which is the whole list for n = 0
LastN(msgs, n) ==
  IF n = 0 \/ n >= Len(msgs) THEN msgs
  ELSE SubSeq(msgs, Len(msgs) - n + 1, Len(msgs))

TrimKeepsOneMore(msgs, size) == <<msgs[1]>> \o LastN(msgs, size + 1)

\* line 42: [self.messages[0]] + self.messages[-(self.history_size):]
Trim(msgs, size) == <<msgs[1]>> \o LastN(msgs, size)

\* lines 41-42 on the list that line 37 has appended to
Trimmed(msgs, size) == IF Len(msgs) > size + 1 THEN Trim(msgs, size) ELSE msgs

\* Session.add_message
SessionAddMessage(msgs, size, role, content) ==
  Trimmed(Append(msgs, SessionMessage(role, content)), size)

\* the (role, content) arguments of add_message
AddInputs ==
  {<<"user", "a">>, <<"user", "b">>, <<"assistant", "a">>, <<"system", "b">>}

\* session.add_message(role, content)
AddMessage ==
  /\ sess_calls < MaxAdds
  /\ \E in \in AddInputs :
       /\ sess_messages' = SessionAddMessage(sess_messages, history_size, in[1], in[2])
       /\ sess_added' = Append(sess_added, SessionMessage(in[1], in[2]))
  /\ sess_calls' = sess_calls + 1
  /\ UNCHANGED <<history_size, last_user_prompt, turn_base, turn_log>>

\* session.clear()
Clear ==
  /\ sess_calls < MaxAdds
  /\ sess_messages' = <<sess_messages[1]>>
  /\ sess_added' = <<>>
  /\ sess_calls' = sess_calls + 1
  /\ UNCHANGED <<history_size, last_user_prompt, turn_base, turn_log>>

sessionFrame == <<loopVars, execVars, permVars, streamVars, chatVars, adapterVars,
                  planVars, personaVars, procVars>>

\* Session(system_prompt, history_size) as cli.py constructs it, with the
\* history_size of a validated Config (ge=1)
InitSession ==
  /\ sess_messages = <<SystemMessage>>
  /\ history_size \in 1..MaxHistory
  /\ sess_added = <<>>
  /\ sess_calls = 0
  /\ last_user_prompt = NoneVal
  /\ turn_base = 0
  /\ turn_log = <<>>
  /\ PlanIdle
  /\ PersonaIdle
  /\ ProcIdle
  /\ StreamIdle
  /\ ChatIdle
  /\ AdapterIdle
  /\ LoopIdle
  /\ ExecIdle
  /\ PermIdle
  /\ DiskIdle

NextSession ==
  \/ AddMessage /\ UNCHANGED sessionFrame
  \/ Clear /\ UNCHANGED sessionFrame

\* the add_message and clear calls on one Session
SpecSession == InitSession /\ [][NextSession]_vars

(* ------------------ cli.py: chat turns and /retry ---------------------- *)

\* how a call of _handle_chat goes: the agent handles the input as an
\* intent, the stream delivers an answer, the stream raises, or the user
\* cancels
TurnOutcomes == {"intent", "answered", "failed", "cancelled"}

\* lines 674-675, 682, 708-710: the add_message calls of _handle_chat
TurnMessages(user_input, outcome) ==
  CASE outcome = "intent" ->
         <<SessionMessage("user", user_input),
           SessionMessage("assistant", "Executed plan:")>>
    [] outcome = "answered" ->
         <<SessionMessage("user", user_input), SessionMessage("assistant", "answer")>>
    [] OTHER -> <<SessionMessage("user", user_input)>>

\* the session's messages after these add_message calls
RECURSIVE AddAll(_, _, _)
AddAll(msgs, size, new) ==
  IF new = <<>> THEN msgs
  ELSE AddAll(SessionAddMessage(msgs, size, Head(new).role, Head(new).content),
              size, Tail(new))

\* _handle_chat(user_input, session, ...)
HandleChat(user_input, outcome) ==
  /\ last_user_prompt' = Str(user_input)
  /\ sess_messages' = AddAll(sess_messages, history_size,
                             TurnMessages(user_input, outcome))
  /\ sess_added' = sess_added \o TurnMessages(user_input, outcome)
  /\ sess_calls' = sess_calls + 1
  /\ UNCHANGED history_size

\* the user types a prompt: lines 176-178 of the REPL
ChatTurn ==
  /\ sess_calls < MaxTurns
  /\ \E user_input \in {"p", "q"}, outcome \in TurnOutcomes :
       /\ HandleChat(user_input, outcome)
       /\ turn_log' = <<outcome>>
  /\ turn_base' = Len(sess_messages)

\* the user types /retry: lines 237-244
Retry ==
  /\ sess_calls < MaxTurns
  /\ last_user_prompt # NoneVal
  /\ \E outcome \in TurnOutcomes :
       /\ HandleChat(last_user_prompt.text, outcome)
       /\ turn_log' = Append(turn_log, outcome)
  /\ UNCHANGED turn_base

\* the session of the REPL before the first prompt
InitTurns ==
  /\ sess_messages = <<SystemMessage>>
  /\ history_size = 50
  /\ sess_added = <<>>
  /\ sess_calls = 0
  /\ last_user_prompt = NoneVal
  /\ turn_base = 0
  /\ turn_log = <<>>
  /\ PlanIdle
  /\ PersonaIdle
  /\ ProcIdle
  /\ StreamIdle
  /\ ChatIdle
  /\ AdapterIdle
  /\ LoopIdle
  /\ ExecIdle
  /\ PermIdle
  /\ DiskIdle

NextTurns ==
  \/ ChatTurn /\ UNCHANGED sessionFrame
  \/ Retry /\ UNCHANGED sessionFrame

\* the prompts and the /retry commands of one REPL session
SpecTurns == InitTurns /\ [][NextTurns]_vars

(* ======================== properties of the loop ======================= *)

Terminated == pc \in {"done", "raised"}

\* the raw response of model call i carries no tool call
CarriesNoToolCalls(resp) ==
  resp.kind = "ok" /\ (resp.tool_calls = NoneVal \/ resp.tool_calls.items = <<>>)

\* call_with_tools returned tool calls for model call i
ReturnedToolCalls(resp) ==
  /\ ~call_with_tools(resp).raised
  /\ Truthy(call_with_tools(resp).tool_calls)

\* tool calls were returned in every round so far
AllToolRounds == \A i \in 1..Len(received) : ReturnedToolCalls(received[i])

\* the entries of callLog made in round k
CallsOfRound(k) == SelectSeq(callLog, LAMBDA e : e.round = k)

ResultsMessage(k) == messages[2 * k + 1]
AssistantMessage(k) == messages[2 * k]

\* C2: the results injected for a round are as many as the round's tool
\* calls, and the i-th result carries the id of the i-th tool call, whether
\* the call returned or raised
ThmC2 ==
  /\ pc = "exec_tools" =>
       /\ Len(tool_results) = next_call - 1
       /\ \A i \in 1..Len(tool_results) :
            tool_results[i].tool_use_id = tool_calls.items[i].id
  /\ \A k \in 1..iteration :
       LET calls == AssistantMessage(k).tool_calls.items
           results == ResultsMessage(k).content.dumped
       IN /\ Len(results) = Len(calls)
          /\ \A i \in 1..Len(calls) : results[i].tool_use_id = calls[i].id
  /\ (pc = "loop_head" /\ iteration > 0) =>
       /\ ResultsMessage(iteration).content.dumped = tool_results
       /\ AssistantMessage(iteration).tool_calls = tool_calls

WitC2 ==
  /\ pc = "loop_head"
  /\ iteration = 1
  /\ Len(tool_calls.items) = 2
  /\ tool_calls.items[1].id # tool_calls.items[2].id
  /\ \E e \in {callLog[i] : i \in 1..Len(callLog)} : e.raised
  /\ \E e \in {callLog[i] : i \in 1..Len(callLog)} : ~e.raised
  /\ Len(ResultsMessage(1).content.dumped) = 2

\* C3: a response without tool calls ends the loop at once: its text is
\* returned, no tool is executed in that round and no model call follows
ThmC3 ==
  \A i \in 1..Len(received) :
    CarriesNoToolCalls(received[i]) =>
      /\ i = Len(received)
      /\ modelCalls = i
      /\ pc = "done"
      /\ retval = [kind |-> "text", text |-> received[i].content]
      /\ CallsOfRound(i) = <<>>

WitC3 ==
  /\ pc = "done"
  /\ Len(received) = 2
  /\ CarriesNoToolCalls(received[2])
  /\ received[2].finish_reason = "tool_calls"
  /\ received[2].tool_calls # NoneVal
  /\ retval = [kind |-> "text", text |-> <<"answer">>]

\* the variables of the Tool Executor, as the state execute works on
CurrentExecState == ExecState(files, permission_cache, project_config, disk_config)

\* the ToolResult recorded for the call that entry e of callLog describes
ResultOf(e) ==
  IF e.round <= iteration
  THEN ResultsMessage(e.round).content.dumped[e.index]
  ELSE tool_results[e.index]

\* C4: a tool call that raises is answered with "Error: <message>"; the
\* other calls of the round are still executed, all results are injected
\* and the loop goes on to the next model call (or to the sentinel when the
\* budget is used up); an unknown tool name makes ToolExecutor.execute
\* raise without any effect
ThmC4 ==
  /\ \A n \in 1..Len(callLog) :
       LET e == callLog[n] IN
       e.raised =>
         /\ ResultOf(e).content = <<"Error: ">> \o e.text
         /\ ResultOf(e).tool_use_id = e.id
         /\ pc = "raised" => Len(received) > e.round
         /\ e.round <= iteration =>
              /\ Len(CallsOfRound(e.round)) = Len(AssistantMessage(e.round).tool_calls.items)
              /\ Len(ResultsMessage(e.round).content.dumped) = Len(CallsOfRound(e.round))
         /\ Terminated =>
              /\ e.round <= iteration
              /\ \/ modelCalls > e.round
                 \/ e.round = max_iterations /\ retval = [kind |-> "text", text |-> SentinelText]
  /\ modelCalls = 0 =>
     \A env \in Envs :
       LET r == execute("delete_universe", [target |-> "all"], CurrentExecState, env) IN
       /\ r.raised
       /\ r.text = <<"Unknown tool: ", "delete_universe">>
       /\ r.st = CurrentExecState
       /\ r.trace = <<>>

WitC4 ==
  /\ modelCalls = 2
  /\ Len(CallsOfRound(1)) = 2
  /\ callLog[1].invoked /\ callLog[1].raised
  /\ callLog[2].invoked /\ ~callLog[2].raised
  /\ ResultsMessage(1).content.dumped[1].content = <<"Error: ", "boom">>
  /\ ResultsMessage(1).content.dumped[2].content = <<"out">>

InitialMessage == Message("user", [kind |-> "text", text |-> <<"prompt">>], NoneVal)

\* message m holds the tool results that answer assistant message a
AnswersToolCalls(m, a) ==
  /\ m.role = "user"
  /\ m.content.kind = "json_text"
  /\ a.role = "assistant"
  /\ Truthy(a.tool_calls)
  /\ Len(m.content.dumped) = Len(a.tool_calls.items)
  /\ \A i \in 1..Len(a.tool_calls.items) :
       m.content.dumped[i].tool_use_id = a.tool_calls.items[i].id

\* one initial user message, then assistant messages, each but a final one
\* with tool calls and followed by the message that answers them
HistoryShape(h) ==
  /\ Len(h) >= 1
  /\ h[1] = InitialMessage
  /\ \A i \in 2..Len(h) :
       IF i % 2 = 0
       THEN /\ h[i].role = "assistant"
            /\ i < Len(h) => Truthy(h[i].tool_calls)
       ELSE AnswersToolCalls(h[i], h[i - 1])

IsPrefixOf(s, t) == Len(s) <= Len(t) /\ SubSeq(t, 1, Len(s)) = s

HistoryInv ==
  /\ HistoryShape(messages)
  /\ (Len(messages) % 2 = 0 /\ ~Truthy(messages[Len(messages)].tool_calls)) => pc = "done"
  /\ modelCalls >= 1 =>
       /\ HistoryShape(sent)
       /\ Len(sent) = 2 * modelCalls - 1
       /\ IsPrefixOf(sent, messages)

\* C5: the history is append-only and has the shape: the initial user
\* message, then per round an assistant message followed, when it carries
\* tool calls, by the results that answer them; every model call after the
\* first is sent a history that ends with the results for the preceding
\* assistant message, and no tool-call message is sent without its results
ThmC5 == []HistoryInv /\ [][IsPrefixOf(messages, messages')]_vars

WitC5 ==
  /\ modelCalls = 2
  /\ Len(sent) = 3
  /\ AnswersToolCalls(sent[3], sent[2])
  /\ Len(messages) = 5
  /\ pc = "loop_head"

\* C6: the loop ends with a text (an answer of the model or the sentinel)
\* or with the error of a failed model call; a failed model call ends the
\* loop at once, nothing is executed or called after it, no pass is
\* skipped, and the failure of a tool call never reaches the caller
ThmC6 ==
  /\ modelCalls = Len(received)
  /\ pc = "loop_head" => modelCalls = iteration
  /\ pc \in {"loop_head", "exec_tools"} => retval = NoneVal
  /\ \A i \in 1..Len(received) :
       received[i] \in FailedResponses =>
         /\ i = Len(received)
         /\ pc = "raised"
         /\ retval = [kind |-> "error", text |-> call_with_tools(received[i]).error]
         /\ CallsOfRound(i) = <<>>
  /\ pc = "raised" =>
       /\ retval.kind = "error"
       /\ retval.text[1] = "APIError: "
       /\ received[Len(received)] \in FailedResponses
  /\ pc = "done" =>
       /\ retval.kind = "text"
       /\ \/ retval.text = SentinelText /\ iteration = max_iterations
          \/ /\ Len(received) > 0
             /\ received[Len(received)].kind = "ok"
             /\ retval.text = received[Len(received)].content

WitC6 ==
  /\ pc = "raised"
  /\ modelCalls = 2
  /\ \E n \in 1..Len(callLog) : callLog[n].raised /\ callLog[n].invoked
  /\ received[2] = [kind |-> "http", status |-> 429]

\* the entries of the "tool_calls" array of a raw response
RawItems(resp) ==
  IF resp.kind = "ok" /\ resp.tool_calls # NoneVal THEN resp.tool_calls.items ELSE <<>>

\* the calls of round k for which tool_executor was invoked
InvokedOfRound(k) == SelectSeq(callLog, LAMBDA e : e.round = k /\ e.invoked)

\* round k has been handled: its results are injected or the loop has ended
RoundOver(k) == k <= iteration \/ (Terminated /\ k <= Len(received))

\* the tool calls of a raw response: the entries that are well-formed
\* ToolCalls
WellFormedCalls(resp) == SelectSeq(RawItems(resp), ToolCallValid)

\* C7: every tool call contained in a model response is passed to the tool
\* executor exactly once, in the round in which it was received, and none
\* is dropped (stated for the well-formed tool calls alone)
CexC7 ==
  \A k \in 1..Len(received) :
    RoundOver(k) =>
      /\ Len(InvokedOfRound(k)) = Len(WellFormedCalls(received[k]))
      /\ \A j \in 1..Len(WellFormedCalls(received[k])) :
           InvokedOfRound(k)[j].id = WellFormedCalls(received[k])[j].id

\* the messages that the adapter's format_tool_results stands for: one
\* message with the blocks as content, or the N messages themselves
AdapterMessages(m, results) ==
  LET f == format_tool_results(get_tool_caller(m), results) IN
  IF f.content_type = "blocks"
  THEN <<Message(f.role, [kind |-> "blocks", blocks |-> f.payload], NoneVal)>>
  ELSE f.payload

\* the messages appended after the assistant message of round k
AppendedAfter(k) == SubSeq(messages, 2 * k + 1, Len(messages))

\* C8: after a tool round the messages appended to the history are what
\* format_tool_results of the adapter chosen for the model yields
CexC8 ==
  (pc = "loop_head" /\ iteration > 0) =>
    AppendedAfter(iteration) = AdapterMessages(model, tool_results)

\* C9: driven by the Tool Executor, the content of each ToolResult is the
\* text the executor produces for the call and the call's effect is in
\* place before the next model call
CexC9 ==
  tool_executor = "ToolExecutor.execute" =>
    \A n \in 1..Len(callLog) :
      callLog[n].invoked =>
        \E env \in Envs :
          LET r == execute(callLog[n].name, callLog[n].arguments.value,
                           CurrentExecState, env)
          IN /\ ~r.raised
             /\ ResultOf(callLog[n]).content = r.text
             /\ r.st.files = files

\* C10: a subprocess is spawned and a file is read or written only after
\* a permission check for that operation and target has returned allowed
CexC10 ==
  \A i \in 1..Len(trace) :
    (trace[i].ev = "effect" /\ trace[i].op \in {"command_exec", "file_read", "file_write"}) =>
      \E j \in 1..(i - 1) :
        /\ trace[j].ev = "check"
        /\ trace[j].op = trace[i].op
        /\ trace[j].target = trace[i].target
        /\ trace[j].allowed

(* ------------- claims about the Tool Executor's results ---------------- *)

\* an execute call has been made
Called == exec_call # NoneVal

\* the required arguments the last call does not carry
MissingArgs == RequiredArgs(exec_call.name) \ DOMAIN exec_call.arguments

\* the last call spawned a subprocess, read or wrote a file, or searched
HasEffect == \E i \in 1..Len(trace) : trace[i].ev = "effect"

\* the last call made a permission check that was refused
Denied == \E i \in 1..Len(trace) : trace[i].ev = "check" /\ ~trace[i].allowed

\* the text begins with "Error:"
IsErrorText(text) == text # <<>> /\ text[1] = "Error: "

\* C11: a call of a recognized tool with a required argument missing
\* returns "Error: <arg> parameter is required" and attempts no operation
CexC11 ==
  (Called /\ MissingArgs # {}) =>
     /\ ~exec_result.raised
     /\ \E a \in MissingArgs :
          exec_result.text = <<"Error: ", a, " parameter is required">>
     /\ ~HasEffect

\* C12: a call of a recognized tool never raises, and when the operation
\* cannot be carried out (an argument is missing, permission is denied,
\* the file to read does not exist) the string returned begins with "Error:"
CexC12 ==
  (Called /\ exec_call.name \in RecognizedTools) =>
     /\ ~exec_result.raised
     /\ ( \/ MissingArgs # {}
          \/ Denied
          \/ /\ exec_call.name = "read_file"
             /\ MissingArgs = {}
             /\ exec_call.arguments.file_path = "notes.txt"
             /\ files[<<"proj", "notes.txt">>] = AbsentFile )
        => IsErrorText(exec_result.text)

\* C13: a call of a recognized tool that succeeds (its result is not an
\* "Error:" string) returns a non-empty string, a read of a file with no
\* content included
CexC13 ==
  (Called /\ exec_call.name \in RecognizedTools
          /\ ~exec_result.raised /\ ~IsErrorText(exec_result.text)) =>
     exec_result.text # <<>>

(* ---------------- claims about the permission checks ------------------- *)

\* a permission check has been made
CheckMade == last_check # NoneVal

\* the last check was answered without asking the user
Unprompted == ~last_check.prompted

\* C14: after the user answered "always" for a key (and the allow-list
\* was saved), the path is on the on-disk allow-list from that moment, and
\* every later check of that key by the same PermissionManager returns
\* allowed without prompting
CexC14 ==
  CheckMade =>
    /\ last_check.decision = "always" => last_check.listed_after
    /\ "always" \in last_check.earlier => (last_check.allowed /\ Unprompted)

\* C15: a permission check, through whichever instance of the process it
\* is made, removes no entry of the on-disk allow-list and no cached
\* allowed decision
CexC15 ==
  [][perm_count' = perm_count + 1 =>
       /\ disk_config.always_allow \subseteq disk_config'.always_allow
       /\ disk_config.allowed_paths \subseteq disk_config'.allowed_paths
       /\ \A i \in Instances :
            {e \in managers[i].cache : e.value} \subseteq managers'[i].cache]_vars

\* C16: a check whose target is under no allow-listed prefix of the config
\* the manager holds (as after a manual revocation and reload_config) is
\* not auto-allowed: it prompts or is denied
CexC16 ==
  (CheckMade /\ ~last_check.covered) => (last_check.prompted \/ ~last_check.allowed)

\* the cache of the instance that made the last check holds the decision
\* allowed for the key checked
CachedAllowed ==
  /\ CacheHas(managers[last_check.inst].cache, last_check.key)
  /\ CacheGet(managers[last_check.inst].cache, last_check.key)

\* C17: a check whose target is inside the project root and under an
\* allow-listed prefix returns allowed without prompting and leaves the
\* decision in the cache; a later check of a key so decided returns allowed
\* from the cache, without prompting
ThmC17 ==
  CheckMade =>
    /\ last_check.covered =>
         (last_check.allowed /\ Unprompted /\ CachedAllowed)
    /\ "auto" \in last_check.earlier =>
         (last_check.cached /\ last_check.allowed /\ Unprompted
          /\ last_check.same_cache)

\* a covered target is checked for the second time
WitC17 ==
  /\ CheckMade
  /\ last_check.covered
  /\ "auto" \in last_check.earlier
  /\ last_check.allowed

\* C18: with prompting disabled a check never prompts, returns allowed
\* only for a target inside the project root and under an allow-listed
\* prefix, and a denial changes neither the cache nor the allow-list, in
\* memory or on disk
CexC18 ==
  (CheckMade /\ ~last_check.prompt_user) =>
    /\ Unprompted
    /\ last_check.allowed => last_check.covered
    /\ ~last_check.allowed =>
         (last_check.same_cache /\ last_check.same_config /\ last_check.same_disk)

\* C19: the answer "allow once" leaves the on-disk allow-list unchanged, and
\* a later check of the same key by the same PermissionManager returns
\* allowed without prompting again
CexC19 ==
  CheckMade =>
    /\ last_check.decision = "once" => last_check.same_disk
    /\ "once" \in last_check.earlier => (last_check.allowed /\ Unprompted)

\* C20: after a check of a key ended in denied, a later check of the same
\* key by the same PermissionManager returns denied without prompting
CexC20 ==
  (CheckMade /\ "denied" \in last_check.earlier) =>
    (~last_check.allowed /\ Unprompted)
(* ================== claims about the streaming client ================== *)

\* the attempt failed with one of the statuses 429, 503, 504
RetryableFailure(o) == o.kind = "http" /\ o.status \in {429, 503, 504}

\* the attempt failed with another status, or below HTTP
TerminalFailure(o) ==
  \/ o.kind = "http" /\ ~RetryableFailure(o)
  \/ o.kind = "network"

\* the attempts begun so far: the ended ones and the one in progress
AttemptsBegun ==
  Len(outcomes) + (IF cs_pc \in {"attempt", "streaming"} THEN 1 ELSE 0)

StreamOver == cs_pc \in {"done", "raised"}

\* the text APIError carries for the response of the last attempt
ErrorOf(r) ==
  IF r.kind = "http"
  THEN <<"OpenRouter", "API", "error:", StatusStr(r.status)>>
         \o (IF r.body.kind = "error" THEN <<"-">> \o r.body.message ELSE <<>>)
  ELSE <<"Streaming", "request", "failed:">> \o r.error

\* C21: an attempt is followed by another one only if it failed with status
\* 429, 503 or 504 and attempts remained; a failure with another status, or
\* a network-level failure, ends the call at once with that error raised,
\* without a wait
ThmC21 ==
  /\ \A i \in 1..Len(outcomes) :
       i < AttemptsBegun =>
         /\ RetryableFailure(outcomes[i])
         /\ i <= retry_config.max_retries
  /\ \A i \in 1..Len(outcomes) :
       TerminalFailure(outcomes[i]) =>
         /\ i = Len(outcomes)
         /\ cs_pc = "raised"
         /\ last_error = ErrorOf(response)
         /\ \A k \in 1..Len(waits) : waits[k].after # i

WitC21 ==
  /\ cs_pc = "raised"
  /\ Len(outcomes) = 2
  /\ outcomes[1] = [kind |-> "http", status |-> 503]
  /\ outcomes[2] = [kind |-> "http", status |-> 400]
  /\ Len(waits) = 1

RECURSIVE Pow(_, _)
Pow(b, n) == IF n = 0 THEN 1 ELSE b * Pow(b, n - 1)

RECURSIVE TotalWait(_)
TotalWait(ws) == IF ws = <<>> THEN 0 ELSE Head(ws).delay + TotalWait(Tail(ws))

\* the data frames that carry choices[0].delta.content, and their fragments
ContentFrames == {Frame("Hel"), Frame("lo")}

FragmentOf(line) == IF line = Frame("Hel") THEN "Hel" ELSE "lo"

\* the lines before the first done-marker
RECURSIVE BeforeDone(_)
BeforeDone(ls) ==
  IF ls = <<>> \/ Head(ls) = DoneMarker THEN <<>>
  ELSE <<Head(ls)>> \o BeforeDone(Tail(ls))

\* the fragments of the content frames of a sequence of lines, in order
RECURSIVE Fragments(_)
Fragments(ls) ==
  IF ls = <<>> THEN <<>>
  ELSE (IF Head(ls) \in ContentFrames THEN <<FragmentOf(Head(ls))>> ELSE <<>>)
         \o Fragments(Tail(ls))

\* C22: the k-th wait lasts retry_initial_delay * retry_backoff_factor^(k-1)
\* and lies between the failed attempt k and attempt k+1; after two
\* retryable failures and a success the waits add up to initial_delay +
\* initial_delay * backoff_factor and the content of the successful
\* response has been yielded
ThmC22 ==
  /\ \A k \in 1..Len(waits) :
       /\ waits[k].delay =
            retry_config.retry_initial_delay
              * Pow(retry_config.retry_backoff_factor, k - 1)
       /\ waits[k].after = k
       /\ k <= Len(outcomes)
       /\ outcomes[k].kind # "stream"
  /\ AttemptsBegun <= Len(waits) + 1
  /\ (cs_pc = "done" /\ Len(outcomes) = 3) =>
       /\ TotalWait(waits) =
            retry_config.retry_initial_delay
              + retry_config.retry_initial_delay * retry_config.retry_backoff_factor
       /\ yielded = Fragments(BeforeDone(response.lines))

WitC22 ==
  /\ cs_pc = "done"
  /\ Len(outcomes) = 3
  /\ retry_config.retry_initial_delay = 2
  /\ retry_config.retry_backoff_factor = 3
  /\ TotalWait(waits) = 8
  /\ yielded = <<"Hel", "lo">>

AllRetryable == \A i \in 1..Len(outcomes) : RetryableFailure(outcomes[i])

LinesRead == SubSeq(response.lines, 1, Len(response.lines) - Len(lines))

\* v is an initial part of w
IsPrefix(v, w) == Len(v) <= Len(w) /\ v = SubSeq(w, 1, Len(v))

\* the transport delivered the whole body and chat_stream is over
BodyDelivered == StreamOver /\ response # NoneVal /\ response.error = <<>>

\* C24: what has been yielded is at every moment the fragments of the
\* content frames read so far that precede the done-marker, once each and
\* in order, and when the body has been delivered all of them; blank lines,
\* comment lines and the lines after the done-marker add nothing
CexC24 ==
  response # NoneVal =>
    /\ yielded = Fragments(BeforeDone(LinesRead))
    /\ IsPrefix(yielded, Fragments(BeforeDone(response.lines)))
    /\ BodyDelivered => yielded = Fragments(BeforeDone(response.lines))

\* C25: reading an undecodable data frame yields nothing and raises
\* nothing, the stream goes on with the next line; the content frames
\* before and after it, up to the done-marker, are all delivered in order
CexC25 ==
  /\ [][(cs_pc = "streaming" /\ lines # <<>> /\ Head(lines) = FrameUndecodable) =>
          /\ cs_pc' = "streaming"
          /\ lines' = Tail(lines)
          /\ yielded' = yielded
          /\ last_error' = last_error]_vars
  /\ []((BodyDelivered
           /\ \E i \in 1..Len(BeforeDone(response.lines)) :
                response.lines[i] = FrameUndecodable) =>
          yielded = Fragments(BeforeDone(response.lines)))

(* ==================== claims about the chat handler ==================== *)

\* the flag was set while the response was streaming
CancelledMidStream == chat_log # NoneVal /\ chat_log.at = "streaming"

AssistantMessages == SelectSeq(session, LAMBDA m : m.role = "assistant")

RECURSIVE Concat(_)
Concat(tokens) ==
  IF tokens = <<>> THEN <<>> ELSE Head(tokens) \o Concat(Tail(tokens))

\* C26: once the flag is set while the response is streaming no further
\* token is taken into the response, the handler leaves the loop at the next
\* token or at the end of the stream, the partial text never becomes an
\* assistant message, and the handler gets back to the REPL prompt; an
\* assistant message is only ever added when the stream has ended and the
\* flag is not set
ThmC26 ==
  /\ [](CancelledMidStream =>
          /\ response_text = chat_log.text
          /\ AssistantMessages = <<>>
          /\ chat_pc = "streaming" => Len(incoming.tokens) = chat_log.left
          /\ Len(incoming.tokens) >= chat_log.left - 1)
  /\ [](CancelledMidStream => <>(chat_pc = "prompt"))
  /\ [](AssistantMessages # <<>> =>
          /\ ~cancelled
          /\ incoming = [tokens |-> <<>>, ending |-> "return"]
          /\ Len(AssistantMessages) = 1
          /\ AssistantMessages[1].content = response_text)

WitC26 ==
  /\ chat_pc = "prompt"
  /\ CancelledMidStream
  /\ chat_log.text = <<"H">>
  /\ chat_log.left = 2
  /\ Len(incoming.tokens) = 1
  /\ AssistantMessages = <<>>

(* ================== claims about the Provider Adapters ================= *)

Serialized == adapter_in # NoneVal /\ adapter_in.op = "serialize_message"

RoundTripMade == Serialized /\ adapter_out.extracted # NoneVal

Formatted == adapter_in # NoneVal /\ adapter_in.op = "format_tool_results"

\* the tool calls an assistant message carries
CarriedCalls(message) ==
  IF message.tool_calls = NoneVal THEN <<>> ELSE message.tool_calls.items

\* C27: extract_tool_calls on the serialization of an assistant message with
\* N tool calls returns N ToolCalls that have, in order, the ids, the names
\* and the arguments of the message's tool calls, for both adapters
CexC27 ==
  RoundTripMade =>
    /\ ~adapter_out.extracted.raised
    /\ Len(adapter_out.extracted.calls) = Len(CarriedCalls(adapter_in.argument))
    /\ \A i \in 1..Len(adapter_out.extracted.calls) :
         /\ adapter_out.extracted.calls[i].id
              = CarriedCalls(adapter_in.argument)[i].id
         /\ adapter_out.extracted.calls[i].function
              = CarriedCalls(adapter_in.argument)[i].function

\* the content blocks of the serialization that are tool-use blocks
ToolUseOf(blocks) == SelectSeq(blocks, LAMBDA b : b.type = "tool_use")

\* the tool-use block that stands for a tool call
BlockOf(tc) ==
  [type |-> "tool_use", id |-> tc.id, name |-> tc.function.name,
   input |-> tc.function.arguments]

\* the content a message keeps: its free text as one text block, or the
\* blocks of its content list that are not tool-use blocks
KeptContent(content) ==
  IF content = NoneVal THEN <<>>
  ELSE IF content.kind = "text"
  THEN (IF content.text = <<>> THEN <<>>
        ELSE <<[type |-> "text", text |-> content.text]>>)
  ELSE [i \in 1..Len(SelectSeq(content.blocks, LAMBDA b : b.type # "tool_use")) |->
          SelectSeq(content.blocks, LAMBDA b : b.type # "tool_use")[i]]

\* C28: the Anthropic serialization of a message with N >= 1 tool calls has
\* no tool_calls field; its content is the kept content of the message (the
\* free text as a leading text block, no tool-use block of the old content)
\* followed by exactly N tool-use blocks, the i-th with the id, the name and
\* the arguments of the i-th tool call
ThmC28 ==
  (Serialized /\ adapter_in.caller = "AnthropicToolCaller"
     /\ Len(CarriedCalls(adapter_in.argument)) >= 1) =>
    /\ "tool_calls" \notin DOMAIN adapter_out.serialized
    /\ adapter_out.serialized.content.kind = "blocks"
    /\ Len(ToolUseOf(adapter_out.serialized.content.blocks))
         = Len(CarriedCalls(adapter_in.argument))
    /\ \A i \in 1..Len(CarriedCalls(adapter_in.argument)) :
         ToolUseOf(adapter_out.serialized.content.blocks)[i]
           = BlockOf(CarriedCalls(adapter_in.argument)[i])
    /\ adapter_out.serialized.content.blocks
         = KeptContent(adapter_in.argument.content)
             \o ToolUseOf(adapter_out.serialized.content.blocks)

WitC28 ==
  /\ Serialized
  /\ adapter_in.caller = "AnthropicToolCaller"
  /\ Len(CarriedCalls(adapter_in.argument)) = 2
  /\ adapter_in.argument.content.kind = "blocks"
  /\ Len(adapter_in.argument.content.blocks) = 2
  /\ adapter_in.argument.content.blocks[1].type = "tool_use"
  /\ Len(adapter_out.serialized.content.blocks) = 3

\* the message has no text: content is None or the empty string
NoText(message) ==
  message.content = NoneVal \/ message.content = [kind |-> "text", text |-> <<>>]

\* C29: the Anthropic serialization of an assistant message without text
\* and without tool calls has as content a sequence of one block, and that
\* block is not empty
CexC29 ==
  (Serialized /\ adapter_in.caller = "AnthropicToolCaller"
     /\ adapter_in.argument.role = "assistant"
     /\ NoText(adapter_in.argument)
     /\ CarriedCalls(adapter_in.argument) = <<>>) =>
    /\ "content" \in DOMAIN adapter_out.serialized
    /\ adapter_out.serialized.content.kind = "blocks"
    /\ Len(adapter_out.serialized.content.blocks) = 1
    /\ adapter_out.serialized.content.blocks[1].text # <<>>

\* C30: format_tool_results returns as many entries as results, the i-th
\* with the i-th result's id: tool_result blocks under the role user for
\* the Anthropic adapter, tool-role messages for the OpenAI adapter; the
\* content of an Anthropic block is a sequence that holds a text block with
\* the result's text, also when the text is empty
CexC30 ==
  Formatted =>
    /\ Len(adapter_out.formatted.payload) = Len(adapter_in.argument)
    /\ adapter_in.caller = "AnthropicToolCaller" =>
         /\ adapter_out.formatted.role = "user"
         /\ \A i \in 1..Len(adapter_in.argument) :
              /\ adapter_out.formatted.payload[i].type = "tool_result"
              /\ adapter_out.formatted.payload[i].tool_use_id
                   = adapter_in.argument[i].tool_use_id
              /\ adapter_out.formatted.payload[i].content.kind = "blocks"
              /\ \E j \in 1..Len(adapter_out.formatted.payload[i].content.blocks) :
                   adapter_out.formatted.payload[i].content.blocks[j]
                     = [type |-> "text", text |-> adapter_in.argument[i].content]
    /\ adapter_in.caller = "OpenAIToolCaller" =>
         /\ adapter_out.formatted.role = "tool"
         /\ \A i \in 1..Len(adapter_in.argument) :
              /\ adapter_out.formatted.payload[i].role = "tool"
              /\ adapter_out.formatted.payload[i].tool_call_id
                   = adapter_in.argument[i].tool_use_id


\* the entries a response carries: its content blocks or its tool_calls
EntriesOf(caller, response_dict) ==
  IF caller = "OpenAIToolCaller"
  THEN (IF "tool_calls" \in DOMAIN response_dict.message
           /\ response_dict.message.tool_calls # NoneVal
        THEN response_dict.message.tool_calls.items ELSE <<>>)
  ELSE (IF "content" \in DOMAIN response_dict.message
           /\ response_dict.message.content # NoneVal
           /\ response_dict.message.content.kind = "blocks"
        THEN response_dict.message.content.blocks ELSE <<>>)

\* a tool-call entry that is an object with an id, a name and arguments
\* that parse
WellFormedBlock(entry) ==
  HasGet(entry) /\ IsToolUse(entry) /\ {"id", "name", "input"} \subseteq DOMAIN entry

WellFormedFunction(entry) ==
  /\ HasGet(entry) /\ IsFunction(entry)
  /\ {"id", "function"} \subseteq DOMAIN entry
  /\ ~ToolCallArguments(entry).raised

WellFormedOf(caller, response_dict) ==
  IF caller = "OpenAIToolCaller"
  THEN ToolCallsOfDicts(SelectSeq(EntriesOf(caller, response_dict),
                                  WellFormedFunction))
  ELSE ToolCallsOfBlocks(SelectSeq(EntriesOf(caller, response_dict),
                                   WellFormedBlock))

ResponseExtracted ==
  adapter_in # NoneVal /\ adapter_in.op = "extract_tool_calls"

\* C31: extract_tool_calls never fails as a whole: on any response, one
\* with plain-text or absent content or with malformed tool-call entries
\* included, it returns the well-formed tool calls in order and skips the
\* malformed ones
CexC31 ==
  ResponseExtracted =>
    /\ ~adapter_out.extracted.raised
    /\ adapter_out.extracted.calls
         = WellFormedOf(adapter_in.caller, adapter_in.argument)

(* ====================== claims about plan execution ===================== *)

\* C32: in every reachable state of plan execution, every PlanAction with
\* executed = true has its result or its error set
ThmC32 ==
  \A i \in 1..Len(plan) :
    plan[i].executed => plan[i].result # NoneVal \/ plan[i].error # NoneVal

\* a failed action followed by an executed command that printed nothing
WitC32 ==
  /\ Len(plan) = 2
  /\ plan[1].executed /\ plan[1].error # NoneVal
  /\ plan[2].type = "exec" /\ plan[2].executed
  /\ plan[2].result = Str(<<>>) /\ plan[2].error = NoneVal

(* ====================== claims about persona files ===================== *)

\* C33: writing an AgentDefinition to its persona file and reading it back
\* reproduces the value of every field, boundary values included
CexC33 == persona_loaded # NoneVal => persona_loaded = persona

(* ------------- claims about the kinds of permission checks -------------- *)

\* a permission check is made in this step
CheckStep == perm_count' = perm_count + 1

\* how can_execute_command would answer now, without asking the user
ExecAnswer(command, cwd) ==
  can_execute_command(command, cwd, FALSE, InstanceState(Manager),
                      [choice |-> "3", save_ok |-> TRUE]).allowed

\* the same working directory gets the same answer whatever the command
CommandBlind ==
  \A cwd \in CheckedCwds :
    \A c1 \in CheckedCommands \cup {"cat"}, c2 \in CheckedCommands \cup {"cat"} :
      ExecAnswer(c1, cwd) = ExecAnswer(c2, cwd)

\* the user has answered "always" (and it was saved) to a command check
\* of this instance in this working directory
AlwaysGrantedIn(inst, cwd) ==
  \E d \in decisions :
    /\ d.inst = inst
    /\ d.key[1] = "exec"
    /\ d.key[2][2] = cwd
    /\ d.decision = "always"

\* a command check in a working directory with an "always" grant is
\* allowed without prompting
GrantServesCwd ==
  (CheckStep /\ last_check'.kind = "exec"
     /\ AlwaysGrantedIn(last_check'.inst, last_check'.key[2][2]))
    => (last_check'.allowed /\ ~last_check'.prompted)

\* C34: the decision of can_execute_command depends only on the working
\* directory, never on the command text, and an "always" grant given for
\* one command makes every later command in that working directory allowed
\* without prompting
CexC34 == []CommandBlind /\ [][GrantServesCwd]_vars

\* the check before this one was a grant by the user
GrantJustGiven ==
  /\ last_check # NoneVal
  /\ last_check.decision \in {"once", "always", "always_unsaved"}

\* this step checks the same target as the check before it, through the
\* same instance, for another kind of operation
OtherKindSameTarget ==
  /\ CheckStep
  /\ last_check'.inst = last_check.inst
  /\ last_check'.target = last_check.target
  /\ last_check'.kind # last_check.kind

\* C37: a grant for one kind of operation on a target never makes a check
\* of a different kind on that target return allowed without prompting
CexC37 ==
  [][(GrantJustGiven /\ OtherKindSameTarget)
       => ~(last_check'.allowed /\ ~last_check'.prompted)]_vars

(* ---------------- claims about the loop's model calls ------------------- *)

\* the transport answered with a status that the retry policy retries
RetryableResponse(resp) ==
  resp.kind = "http" /\ _is_retryable_error(resp.status)

\* the number of retryable failures at the end of the transport's answers
RECURSIVE TrailingRetryable(_)
TrailingRetryable(resps) ==
  IF resps # <<>> /\ RetryableResponse(resps[Len(resps)])
  THEN 1 + TrailingRetryable(SubSeq(resps, 1, Len(resps) - 1))
  ELSE 0

\* a retryable failure of a model call has reached the loop
RetryableReachedLoop ==
  /\ pc = "raised"
  /\ received # <<>>
  /\ RetryableResponse(received[Len(received)])

\* C35: a model call of the loop that fails with a retryable status is
\* retried under the bounded backoff policy, and the failure reaches the
\* loop only after the last of the max_retries + 1 attempts has failed
CexC35 ==
  RetryableReachedLoop =>
    TrailingRetryable(received) >= retry_config.max_retries + 1

(* ====================== claims about subprocesses ====================== *)

\* execute has returned or raised
ExecuteOver == proc_pc \in {"returned", "raised"}

\* execute raised the timeout error
TimedOut ==
  /\ proc_pc = "raised"
  /\ proc_ret = CommandExecute("ls", [proc |-> [kind |-> "timeout"]])

\* what the Tool Executor returns for a command whose execute call ended
\* as the subprocess outcome p
ToolText(p) == _execute_command([command |-> "ls"], NoneVal, [proc |-> p]).text

AttemptAhead == cs_pc \in {"sleeping", "attempt"}

\* C38: chat_stream delivers tokens of one attempt only: a retry is
\* started only when no token has been delivered, so the consumer never
\* sees the beginning of a response followed by a restarted one
ThmC38 == AttemptAhead => yielded = <<>>

\* an attempt failed after it had delivered tokens, retries were left, and
\* chat_stream raised instead of starting over
WitC38 ==
  /\ cs_pc = "raised"
  /\ yielded # <<>>
  /\ AttemptsRemain

(* ========================= claims about sessions ======================== *)

\* C39: after any sequence of add_message and clear calls, messages[0] is
\* the system message, the session holds at most history_size messages
\* besides it, and those are the most recently added messages in order
ThmC39 ==
  /\ sess_messages[1] = SystemMessage
  /\ Len(sess_messages) - 1 <= history_size
  /\ Tail(sess_messages) =
       SubSeq(sess_added,
              Len(sess_added) - (Len(sess_messages) - 1) + 1, Len(sess_added))
  /\ Len(sess_messages) - 1 =
       (IF Len(sess_added) < history_size THEN Len(sess_added) ELSE history_size)

\* more messages were added than the history holds, after a clear
WitC39 ==
  /\ Len(sess_added) > history_size
  /\ sess_calls > Len(sess_added)

\* the prompt's turn failed or was cancelled, and so did every /retry but
\* the last, which has ended
RetriedAfterFailure ==
  /\ Len(turn_log) >= 2
  /\ \A i \in 1..(Len(turn_log) - 1) : turn_log[i] \in {"failed", "cancelled"}

\* what the session has gained since the prompt was typed
SinceTurn == SubSeq(sess_messages, turn_base + 1, Len(sess_messages))

\* C40: a chat turn leaves the user's prompt in the session exactly once:
\* after a failed or cancelled turn followed by one or more /retry
\* commands the session holds that prompt once, followed by at most one
\* assistant answer, and never two consecutive copies of the user message
CexC40 ==
  RetriedAfterFailure =>
    /\ SinceTurn[1] = SessionMessage("user", last_user_prompt.text)
    /\ Len(SinceTurn) <= 2
    /\ Len(SinceTurn) = 2 => SinceTurn[2].role = "assistant"
    /\ \A i \in 1..(Len(sess_messages) - 1) :
         ~(/\ sess_messages[i].role = "user"
           /\ sess_messages[i + 1] = sess_messages[i])

====
